---- MODULE Spec2Model ----
(***************************************************************************)
(* A model of the QUIC reverse proxy's health checker, load balancer and   *)
(* request handler (pkg/health/checker.go, internal/proxy/loadbalancer.go, *)
(* internal/proxy/handler.go).                                             *)
(***************************************************************************)
EXTENDS Integers, Sequences, FiniteSets, TLC

(***************************************************************************)
(* Bounds of the model.                                                    *)
(***************************************************************************)
\* request slots: the number of requests that can be in flight at once
NumReq == 2
\* total number of requests accepted in one behaviour, with health tasks
MaxRequests == 1
\* total number of requests accepted in one behaviour, concurrent requests
MaxConnRequests == 2
\* total number of requests accepted in one behaviour, one pick at a time
MaxSeqRequests == 6
\* cap on the checker's consecutive counters (unbounded ints in the code)
MaxCount == 3
\* probes given to the checker in the checker-only specification
MaxProbes == 8
\* largest configured threshold in the checker-only specification
MaxThreshold == 3
\* requests accepted in one behaviour when one pick is examined on its own
MaxPickRequests == 1
\* largest connection count a backend starts with when a pick is examined
MaxConn == 2
\* largest group weight of a configuration
MaxWeight == 3
\* requests accepted in one behaviour, groups with strategies of their own
MaxMixRequests == 3
\* largest number of elements of a request path given to the path matcher
MaxPathElems == 3
\* largest number of elements of a path pattern given to the path matcher
MaxPatternElems == 3
\* largest number of rules of a routing configuration
MaxRules == 2
\* largest priority of a rule (0 is the priority of a rule that gives none)
MaxPriority == 1
\* requests accepted in one behaviour when routing is examined
MaxRouteRequests == 1
\* requests forwarded while the upstream's outcomes are counted
MaxUpstreamRequests == 1
\* requests accepted by the listeners around a shutdown
MaxShutdownRequests == 2
\* requests served one after the other around a passive ejection
MaxPassiveRequests == 2
\* calls of UpdateBackends
MaxUpdates == 1
\* picks made around the wrap of a round-robin cursor
MaxWrapRequests == 3
\* how far below the largest int32 a cursor starts
WrapMargin == 1

(***************************************************************************)
(* The configuration: two backend groups, in the order of cfg.Backends.    *)
(***************************************************************************)
Groups == {"g1", "g2"}
ConfigOrder == <<"g1", "g2">>
Targets == [g \in Groups |-> IF g = "g1" THEN <<"b1", "b2">> ELSE <<"b3">>]
Backends == {"b1", "b2", "b3"}
GroupOf(b) == CHOOSE g \in Groups : \E i \in 1..Len(Targets[g]) : Targets[g][i] = b
\* cfg.HealthCheck.Enabled of each group
HealthCheckEnabled == [g \in Groups |-> g = "g1"]
\* a plausible slip: a checker and a task for every backend, enabled or not
CheckedWhateverEnabled == Backends

\* the backends that have a checker and a health task
Checked == {b \in Backends : HealthCheckEnabled[GroupOf(b)]}
\* cfg.Weight of each group, copied to each of its backends
Weight == [b \in Backends |-> IF GroupOf(b) = "g1" THEN 2 ELSE 1]
\* NewLoadBalancer: Weight: cfg.Weight, for every target of the group
NewBackendWeight(cw) == [b \in Backends |-> cw[GroupOf(b)]]
Algorithms == {"round_robin", "least_connections", "weighted"}
NoBackend == "nil"
Reqs == 1..NumReq

\* int32 arithmetic of the round-robin cursor
MaxInt32 == 2147483647
MinInt32 == -2147483647 - 1
AddInt32One(x) == IF x = MaxInt32 THEN MinInt32 ELSE x + 1
SubInt32One(x) == IF x = MinInt32 THEN MaxInt32 ELSE x - 1
\* Go's remainder truncates toward zero: the sign follows the dividend
GoRem(a, n) == IF a >= 0 THEN a % n ELSE -((-(a + n)) % n)

VARIABLES
    checker,          \* health.Checker of each backend: config and counters
    probeLog,         \* history: the probe outcomes each checker was given
    hc,               \* the health task of each backend: pc and local `healthy`
    healthy,          \* Backend.healthy (int32 used as atomic bool)
    connections,      \* Backend.connections
    roundRobinIndex,  \* LoadBalancer.roundRobinIndex (map by config name)
    cfgLB,            \* cfg.LoadBalancer of each group
    algorithm,        \* LoadBalancer.algorithm
    req,              \* the request being served in each slot
    pendingDec,       \* per backend, sleeping cleanup goroutines of recycled slots
    picks,            \* history: picks that returned each backend
    decs,             \* history: decrements executed on each backend
    started,          \* history: requests accepted so far
    crashed,          \* the runtime stopped the process (fatal error)
    routing,          \* cfg.Routing: the rules as declared and default_backend
    router,           \* Router: the sorted rules and defaultBackend
    hreq,             \* the http.Request given to the router
    mres,             \* the result of a match evaluated on its own
    url,              \* Backend.URL: the target each backend was built from
    metrics,          \* Handler.metrics: nil, or the backend_requests_total counters
    srv,              \* the process: its listeners, tasks and shutdown sequence
    old               \* per backend name, the health tasks of replaced configurations

\* the router's part of the state
routerVars == <<routing, router, hreq, mres>>
\* the backends' targets, the telemetry and the process around the handler
serverVars == <<url, metrics, srv, old>>

vars == <<checker, probeLog, hc, healthy, connections, roundRobinIndex, cfgLB,
          algorithm, routerVars, serverVars, req, pendingDec, picks, decs, started, crashed>>

(***************************************************************************)
(* pkg/health/checker.go                                                   *)
(***************************************************************************)
DefaultHealthyThreshold == 2
DefaultUnhealthyThreshold == 3

\* NewChecker: zero thresholds take the defaults; the checker starts healthy
NewChecker(ht, ut) ==
    [HealthyThreshold   |-> IF ht = 0 THEN DefaultHealthyThreshold ELSE ht,
     UnhealthyThreshold |-> IF ut = 0 THEN DefaultUnhealthyThreshold ELSE ut,
     consecutiveSuccess |-> 0,
     consecutiveFailure |-> 0,
     isHealthy          |-> TRUE]

\* a plausible slip: the failure branch forgets to clear the success counter
CheckKeepsSuccess(c, success) ==
    IF success
    THEN [c EXCEPT !.consecutiveSuccess = c.consecutiveSuccess + 1,
                   !.consecutiveFailure = 0,
                   !.isHealthy = IF ~c.isHealthy /\ c.consecutiveSuccess + 1 >= c.HealthyThreshold
                                 THEN TRUE ELSE c.isHealthy]
    ELSE [c EXCEPT !.consecutiveFailure = c.consecutiveFailure + 1,
                   !.isHealthy = IF c.isHealthy /\ c.consecutiveFailure + 1 >= c.UnhealthyThreshold
                                 THEN FALSE ELSE c.isHealthy]

\* Checker.Check: the checker after a probe whose outcome is `success`
Check(c, success) ==
    IF success
    THEN [c EXCEPT !.consecutiveSuccess = c.consecutiveSuccess + 1,
                   !.consecutiveFailure = 0,
                   !.isHealthy = IF ~c.isHealthy /\ c.consecutiveSuccess + 1 >= c.HealthyThreshold
                                 THEN TRUE ELSE c.isHealthy]
    ELSE [c EXCEPT !.consecutiveFailure = c.consecutiveFailure + 1,
                   !.consecutiveSuccess = 0,
                   !.isHealthy = IF c.isHealthy /\ c.consecutiveFailure + 1 >= c.UnhealthyThreshold
                                 THEN FALSE ELSE c.isHealthy]

\* the counters are capped so that the state space is finite
CanCheck(c, success) ==
    IF success THEN c.consecutiveSuccess < MaxCount ELSE c.consecutiveFailure < MaxCount

(***************************************************************************)
(* Strings are sequences of one-character strings; the functions of Go's   *)
(* strings and path packages that the router calls.                        *)
(***************************************************************************)
HasPrefix(s, prefix) == Len(prefix) <= Len(s) /\ SubSeq(s, 1, Len(prefix)) = prefix
HasSuffix(s, suffix) ==
    Len(suffix) <= Len(s) /\ SubSeq(s, Len(s) - Len(suffix) + 1, Len(s)) = suffix
TrimSuffix(s, suffix) == IF HasSuffix(s, suffix) THEN SubSeq(s, 1, Len(s) - Len(suffix)) ELSE s
\* strings.Contains(s, c) for a one-character c
Contains(s, c) == \E i \in 1..Len(s) : s[i] = c
\* strings.Trim(s, "/"): all leading and trailing slashes removed
RECURSIVE TrimSlashes(_)
TrimSlashes(s) ==
    IF s = <<>> THEN s
    ELSE IF Head(s) = "/" THEN TrimSlashes(Tail(s))
    ELSE IF s[Len(s)] = "/" THEN TrimSlashes(SubSeq(s, 1, Len(s) - 1))
    ELSE s
\* strings.Split(s, "/"): the pieces between slashes, one empty piece for ""
RECURSIVE Split(_)
Split(s) ==
    LET at == {i \in 1..Len(s) : s[i] = "/"}
    IN  IF at = {} THEN <<s>>
        ELSE LET i == CHOOSE j \in at : \A k \in at : j <= k
             IN  <<SubSeq(s, 1, i - 1)>> \o Split(SubSeq(s, i + 1, Len(s)))
\* the elements joined with slashes
RECURSIVE Join(_)
Join(elems) ==
    IF elems = <<>> THEN <<>>
    ELSE IF Len(elems) = 1 THEN elems[1]
    ELSE elems[1] \o <<"/">> \o Join(Tail(elems))
\* path.Clean, the walk over the elements: empty and "." elements are dropped,
\* ".." removes the element before it (and is dropped at the root, kept at the
\* start of a relative path)
RECURSIVE CleanElems(_, _, _)
CleanElems(elems, out, rooted) ==
    IF elems = <<>> THEN out
    ELSE LET e == Head(elems)
             rest == Tail(elems)
         IN  IF e = <<>> \/ e = <<".">> THEN CleanElems(rest, out, rooted)
             ELSE IF e = <<".", ".">>
                  THEN IF out # <<>> /\ out[Len(out)] # <<".", ".">>
                       THEN CleanElems(rest, SubSeq(out, 1, Len(out) - 1), rooted)
                       ELSE IF rooted THEN CleanElems(rest, out, rooted)
                       ELSE CleanElems(rest, Append(out, e), rooted)
             ELSE CleanElems(rest, Append(out, e), rooted)
\* path.Clean
Clean(s) ==
    IF s = <<>> THEN <<".">>
    ELSE LET rooted == Head(s) = "/"
             out == Join(CleanElems(Split(s), <<>>, rooted))
         IN  IF rooted THEN <<"/">> \o out
             ELSE IF out = <<>> THEN <<".">> ELSE out
\* unicode simple folding, on the letters that occur in the model
ToUpper(c) ==
    CASE c = "g" -> "G" [] c = "e" -> "E" [] c = "t" -> "T"
      [] c = "p" -> "P" [] c = "o" -> "O" [] c = "s" -> "S" [] c = "u" -> "U"
      [] OTHER -> c
\* strings.EqualFold
EqualFold(s, t) == Len(s) = Len(t) /\ \A i \in 1..Len(s) : ToUpper(s[i]) = ToUpper(t[i])
\* textproto.CanonicalMIMEHeaderKey, on the header names that occur in the model
CanonicalMIMEHeaderKey(key) ==
    CASE key = "x-env" -> "X-Env" [] key = "x-id" -> "X-Id"
      [] key = "X-Real-IP" -> "X-Real-Ip" [] OTHER -> key
\* http.Header.Get: the first value of the canonical key, "" when there is none
HeaderGet(header, key) ==
    LET k == CanonicalMIMEHeaderKey(key)
    IN  IF k \in DOMAIN header /\ header[k] # <<>> THEN header[k][1] ELSE <<>>
\* http.Header.Set: the key's values are replaced by the one value
HeaderSet(header, key, value) ==
    LET k == CanonicalMIMEHeaderKey(key)
    IN  [x \in DOMAIN header \cup {k} |-> IF x = k THEN <<value>> ELSE header[x]]

(***************************************************************************)
(* internal/proxy/handler.go: Router                                       *)
(***************************************************************************)
\* Router.matchWildcard: the same number of pieces, each equal or "*"
matchWildcard(requestPath, pattern) ==
    LET pathSegments == Split(TrimSlashes(requestPath))
        patternSegments == Split(TrimSlashes(pattern))
    IN  /\ Len(pathSegments) = Len(patternSegments)
        /\ \A i \in 1..Len(patternSegments) :
              patternSegments[i] = <<"*">> \/ pathSegments[i] = patternSegments[i]

\* Router.matchPath
matchPath(requestPath, pattern) ==
    LET rp == Clean(requestPath)
        pat == Clean(pattern)
    IN  IF rp = pat THEN TRUE
        ELSE IF HasSuffix(pat, <<"/", "*">>)
             THEN LET prefix == TrimSuffix(pat, <<"/", "*">>)
                  IN  IF prefix = <<>> THEN TRUE
                      ELSE HasPrefix(rp, prefix \o <<"/">>) \/ rp = prefix
        ELSE IF Contains(pat, "*") THEN matchWildcard(rp, pat)
        ELSE FALSE

\* a plausible slip: a rule with a path does not look at its path_prefix
matchRulePathOnly(q, rule) ==
    /\ rule.Path # <<>> => matchPath(q.Path, rule.Path)
    /\ (rule.Path = <<>> /\ rule.PathPrefix # <<>>) => HasPrefix(q.Path, rule.PathPrefix)
    /\ rule.Host # "" => q.Host = rule.Host
    /\ Len(rule.Methods) > 0 =>
          \E i \in 1..Len(rule.Methods) : EqualFold(q.Method, rule.Methods[i])
    /\ \A key \in DOMAIN rule.Headers : HeaderGet(q.Header, key) = rule.Headers[key]

\* Router.matchRule: each declared predicate is checked in turn
matchRule(q, rule) ==
    /\ rule.Path # <<>> => matchPath(q.Path, rule.Path)
    /\ rule.PathPrefix # <<>> => HasPrefix(q.Path, rule.PathPrefix)
    /\ rule.Host # "" => q.Host = rule.Host
    /\ Len(rule.Methods) > 0 =>
          \E i \in 1..Len(rule.Methods) : EqualFold(q.Method, rule.Methods[i])
    /\ \A key \in DOMAIN rule.Headers : HeaderGet(q.Header, key) = rule.Headers[key]

\* a plausible slip: the comparison is turned round, lowest priority first
SortSliceAscending(rules) ==
    LET n == Len(rules)
        perms == {f \in [1..n -> 1..n] : \A i, j \in 1..n : i # j => f[i] # f[j]}
        asc == {f \in perms : \A i, j \in 1..n :
                   i < j => rules[f[i]].Priority <= rules[f[j]].Priority}
    IN  {[i \in 1..n |-> rules[f[i]]] : f \in asc}

\* sort.Slice(rules, Priority descending): the order of rules of equal
\* priority is not specified, so every descending arrangement is possible
SortSlice(rules) ==
    LET n == Len(rules)
        perms == {f \in [1..n -> 1..n] : \A i, j \in 1..n : i # j => f[i] # f[j]}
        desc == {f \in perms : \A i, j \in 1..n :
                    i < j => rules[f[i]].Priority >= rules[f[j]].Priority}
    IN  {[i \in 1..n |-> rules[f[i]]] : f \in desc}

\* NewRouter: the default backend, when none is given, is the first group
DefaultOf(cfg) ==
    IF cfg.DefaultBackend = "" /\ Len(ConfigOrder) > 0 THEN ConfigOrder[1]
    ELSE cfg.DefaultBackend

\* NewRouter: the routers that can be built from cfg.Routing
NewRouter(cfg) ==
    {[rules |-> rs, defaultBackend |-> DefaultOf(cfg)] : rs \in SortSlice(cfg.Rules)}

\* Router.Route: the first matching rule decides, then the default backend;
\* the result is a group (r.backends has it) or an error
RouteErr == "err"
Route(rt, q) ==
    LET hit == {i \in 1..Len(rt.rules) : matchRule(q, rt.rules[i])}
    IN  IF hit # {}
        THEN LET rule == rt.rules[CHOOSE i \in hit : \A j \in hit : i <= j]
             IN  IF rule.Backend \in Groups THEN rule.Backend ELSE RouteErr
        ELSE IF rt.defaultBackend # "" /\ rt.defaultBackend \in Groups
             THEN rt.defaultBackend
             ELSE RouteErr

\* strings.TrimPrefix
TrimPrefix(s, prefix) ==
    IF HasPrefix(s, prefix) THEN SubSeq(s, Len(prefix) + 1, Len(s)) ELSE s

\* Router.ShouldStripPrefix: the loop returns at the first rule, in the
\* router's order, that matches, has strip_prefix and has a path_prefix or a
\* path ending in "/*"; any other rule is passed over
NoStrip == [strip |-> FALSE, prefix |-> <<>>]
ShouldStripPrefix(rt, q) ==
    LET giving == {i \in 1..Len(rt.rules) :
                     /\ matchRule(q, rt.rules[i])
                     /\ rt.rules[i].StripPrefix
                     /\ \/ rt.rules[i].PathPrefix # <<>>
                        \/ /\ rt.rules[i].Path # <<>>
                           /\ HasSuffix(rt.rules[i].Path, <<"/", "*">>)}
    IN  IF giving = {} THEN NoStrip
        ELSE LET rule == rt.rules[CHOOSE i \in giving : \A j \in giving : i <= j]
             IN  [strip |-> TRUE,
                  prefix |-> IF rule.PathPrefix # <<>> THEN rule.PathPrefix
                             ELSE TrimSuffix(rule.Path, <<"/", "*">>)]

\* ServeHTTP: r.URL.Path after the strip, "/" when nothing is left
StripPath(rt, q) ==
    LET s == ShouldStripPrefix(rt, q)
        p == TrimPrefix(q.Path, s.prefix)
    IN  IF s.strip /\ s.prefix # <<>>
        THEN IF p = <<>> THEN <<"/">> ELSE p
        ELSE q.Path

\* a configuration without rules, and a request for /
NoRouting == [Rules |-> <<>>, DefaultBackend |-> ""]
NoRequest == [Path |-> <<"/">>, RawQuery |-> <<>>, Host |-> "",
              Method |-> <<"G", "E", "T">>, Header |-> <<>>,
              RemoteAddr |-> <<"c", ":", "9">>]
NoResult == [done |-> FALSE, ok |-> FALSE]

\* the process after Start: targets as configured, telemetry disabled
TargetURL == [b \in Backends |-> b]
NoMetrics == [nil |-> TRUE, BackendRequests |-> <<>>, BackendHealthStatus |-> <<>>]
Listeners == {"quic", "fallback"}
Running == [pc |-> "serving", stopHealthCheck |-> "open",
            listener |-> [l \in Listeners |-> "open"],
            metricsServer |-> "open", inflight |-> [l \in Listeners |-> 0],
            accepted |-> 0, late |-> 0, cutEarly |-> 0, expired |-> FALSE,
            exit |-> -1, log |-> <<>>, failure |-> "none"]
\* no configuration has been replaced yet
NoOldTasks == [b \in Backends |-> <<>>]
InitServerIdle ==
    /\ url = TargetURL
    /\ metrics = NoMetrics
    /\ srv = Running
    /\ old = NoOldTasks

InitRouterIdle ==
    /\ routing = NoRouting
    /\ router \in NewRouter(NoRouting)
    /\ hreq = NoRequest
    /\ mres = NoResult

(***************************************************************************)
(* Initial states.                                                         *)
(***************************************************************************)
IdleReq == [pc |-> "idle", group |-> "", key |-> "", i |-> 0, hb |-> <<>>,
            cur |-> 0, backend |-> NoBackend, status |-> 0, body |-> "",
            calls |-> 0, cleanup |-> "none", avoid |-> {}, allDown |-> FALSE,
            connBefore |-> 0, Path |-> <<>>, err |-> "", json |-> <<>>]
IdleTask == [pc |-> "wait", healthy |-> TRUE]

\* NewLoadBalancer: the algorithm is the first group's that is not empty
NewAlgorithm(lbs) ==
    LET nonEmpty == {i \in 1..Len(ConfigOrder) : lbs[ConfigOrder[i]] # ""}
    IN  IF nonEmpty = {} THEN ""
        ELSE lbs[ConfigOrder[CHOOSE i \in nonEmpty : \A j \in nonEmpty : i <= j]]

\* NewLoadBalancer, with the groups declared in the given order
NewAlgorithmIn(order, lbs) ==
    LET nonEmpty == {i \in 1..Len(order) : lbs[order[i]] # ""}
    IN  IF nonEmpty = {} THEN ""
        ELSE lbs[order[CHOOSE i \in nonEmpty : \A j \in nonEmpty : i <= j]]

InitCommon ==
    /\ probeLog = [b \in Backends |-> <<>>]
    /\ hc = [b \in Backends |-> IdleTask]
    /\ connections = [b \in Backends |-> 0]
    /\ roundRobinIndex = [g \in Groups |-> 0]
    /\ algorithm = NewAlgorithm(cfgLB)
    /\ req = [r \in Reqs |-> IdleReq]
    /\ pendingDec = [b \in Backends |-> 0]
    /\ picks = [b \in Backends |-> 0]
    /\ decs = [b \in Backends |-> 0]
    /\ started = 0
    /\ crashed = FALSE

\* the state after NewLoadBalancer: every backend healthy, thresholds unset
Init ==
    /\ \E a \in Algorithms : cfgLB = [g \in Groups |-> a]
    /\ checker = [b \in Backends |-> NewChecker(0, 0)]
    /\ healthy = [b \in Backends |-> 1]
    /\ InitCommon
    /\ InitRouterIdle
    /\ InitServerIdle

(***************************************************************************)
(* The checker on its own: any thresholds, any probe outcomes.             *)
(***************************************************************************)
InitChecker ==
    /\ cfgLB = [g \in Groups |-> "round_robin"]
    /\ \E ht \in 0..MaxThreshold, ut \in 0..MaxThreshold :
          checker = [b \in Backends |-> NewChecker(ht, ut)]
    /\ healthy = [b \in Backends |-> 1]
    /\ InitCommon
    /\ InitRouterIdle
    /\ InitServerIdle

Probe(b, success) ==
    /\ Len(probeLog[b]) < MaxProbes
    /\ checker' = [checker EXCEPT ![b] = Check(checker[b], success)]
    /\ probeLog' = [probeLog EXCEPT ![b] = Append(@, success)]
    /\ UNCHANGED <<hc, healthy, connections, roundRobinIndex, cfgLB, algorithm, routerVars, serverVars,
                   req, pendingDec, picks, decs, started, crashed>>

\* one Checker is followed: checkers share no state
Probed == {"b1"}

NextChecker == \E b \in Probed, success \in BOOLEAN : Probe(b, success)

SpecChecker == InitChecker /\ [][NextChecker]_vars

\* the number of trailing entries of log equal to v
RECURSIVE TrailingRun(_, _)
TrailingRun(log, v) ==
    IF log = <<>> \/ log[Len(log)] # v THEN 0
    ELSE 1 + TrailingRun(SubSeq(log, 1, Len(log) - 1), v)

\* C1: a probe changes the checker's state Healthy->Unhealthy exactly when it
\* is the U-th consecutive failure, and Unhealthy->Healthy exactly when it is
\* the H-th consecutive success; no other probe changes the state.
C1_FlapDamping ==
    [][\A b \in Checked :
          probeLog'[b] # probeLog[b] =>
             LET c == checker[b]
                 d == checker'[b]
             IN  /\ (c.isHealthy /\ ~d.isHealthy) <=>
                       (c.isHealthy /\ TrailingRun(probeLog'[b], FALSE) = c.UnhealthyThreshold)
                 /\ (~c.isHealthy /\ d.isHealthy) <=>
                       (~c.isHealthy /\ TrailingRun(probeLog'[b], TRUE) = c.HealthyThreshold)
                 /\ d.HealthyThreshold = c.HealthyThreshold
                 /\ d.UnhealthyThreshold = c.UnhealthyThreshold]_vars

\* U=3, H=2: F,F,F ejects, then S,F,S,S recovers, on its last S
C1_Witness ==
    /\ checker["b1"].UnhealthyThreshold = 3
    /\ checker["b1"].HealthyThreshold = 2
    /\ probeLog["b1"] = <<FALSE, FALSE, FALSE, TRUE, FALSE, TRUE, TRUE>>
    /\ checker["b1"].isHealthy
    /\ checker["b1"].consecutiveSuccess = 2

(***************************************************************************)
(* internal/proxy/loadbalancer.go: Backend                                 *)
(***************************************************************************)
\* a plausible slip: the flag is stored as healthy whatever the argument
SetHealthyAlwaysOne(h) == 1

\* Backend.SetHealthy: the int32 stored for a bool
SetHealthy(h) == IF h THEN 1 ELSE 0

\* a plausible slip: every backend passes the health filter
IsHealthyAlways(b) == TRUE

\* Backend.IsHealthy
IsHealthy(b) == healthy[b] = 1

\* a plausible slip: the cleanup subtracts twice
DecrementTwice(n) == n - 2

\* Backend.DecrementConnections: atomic.AddInt32(&b.connections, -1)
DecrementConnections(n) == n - 1

\* Backend.IncrementConnections: atomic.AddInt32(&b.connections, 1)
IncrementConnections(n) == n + 1

(***************************************************************************)
(* internal/proxy/loadbalancer.go: StartHealthChecks, one task per checker *)
(***************************************************************************)
Picking == {"scan", "rr_read", "rr_write", "lc", "weighted", "inc"}

\* the checker of b says Unhealthy and its task has written that to the flag
AppliedEjected(b) == b \in Checked /\ ~checker[b].isHealthy /\ hc[b].pc = "wait"

\* case <-ticker.C: healthy := c.Check(). When a tick is ready and
\* stopHealthCheck is closed, select takes either case.
HealthTick(b, success) ==
    /\ ~crashed
    /\ srv.pc # "exited"
    /\ b \in Checked
    /\ hc[b].pc = "wait"
    /\ CanCheck(checker[b], success)
    /\ checker' = [checker EXCEPT ![b] = Check(checker[b], success)]
    /\ hc' = [hc EXCEPT ![b] = [pc |-> "apply", healthy |-> checker'[b].isHealthy]]
    /\ req' = [r \in Reqs |->
                 IF req[r].pc \in Picking /\ checker'[b].isHealthy
                 THEN [req[r] EXCEPT !.avoid = @ \ {b}] ELSE req[r]]
    /\ UNCHANGED <<probeLog, healthy, connections, roundRobinIndex, cfgLB,
                   algorithm, routerVars, serverVars, pendingDec, picks, decs, started, crashed>>

\* Backend.Name: fmt.Sprintf("%s-%s", cfg.Name, target)
NameOf(u, b) == <<GroupOf(b), "-", u[b]>>

\* if lb.metrics != nil { lb.metrics.UpdateBackendHealth(n, healthy) }
UpdateBackendHealth(m, name, h) ==
    IF m.nil THEN m
    ELSE [m EXCEPT !.BackendHealthStatus[name] = IF h THEN 1 ELSE 0]

\* lb.mu.RLock(); backend.SetHealthy(healthy); the gauge; lb.mu.RUnlock()
HealthApply(b) ==
    /\ ~crashed
    /\ srv.pc # "exited"
    /\ hc[b].pc = "apply"
    /\ healthy' = [healthy EXCEPT ![b] = SetHealthy(hc[b].healthy)]
    /\ metrics' = UpdateBackendHealth(metrics, NameOf(url, b), hc[b].healthy)
    /\ hc' = [hc EXCEPT ![b] = IdleTask]
    /\ req' = [r \in Reqs |->
                 IF req[r].group = GroupOf(b) /\ healthy'[b] = 1
                 THEN [req[r] EXCEPT !.allDown = FALSE] ELSE req[r]]
    /\ UNCHANGED <<checker, probeLog, connections, roundRobinIndex, cfgLB,
                   algorithm, routerVars, url, srv, old, pendingDec, picks, decs, started, crashed>>

\* case <-lb.stopHealthCheck: return
HealthReturn(b) ==
    /\ ~crashed
    /\ srv.pc # "exited"
    /\ b \in Checked
    /\ hc[b].pc = "wait"
    /\ srv.stopHealthCheck = "closed"
    /\ hc' = [hc EXCEPT ![b].pc = "returned"]
    /\ UNCHANGED <<checker, probeLog, healthy, connections, roundRobinIndex, cfgLB,
                   algorithm, routerVars, serverVars, req, pendingDec, picks, decs,
                   started, crashed>>

(***************************************************************************)
(* internal/proxy/handler.go: ServeHTTP, and the pick it makes             *)
(***************************************************************************)
unchangedByPick == <<checker, probeLog, hc, healthy, cfgLB, algorithm, routerVars, serverVars,
                     pendingDec, decs, crashed>>

\* the first step after the healthy filter, by lb.algorithm
SelectPC ==
    CASE algorithm = "least_connections" -> "lc"
      [] algorithm = "weighted" -> "weighted"
      [] OTHER -> "rr_read"

\* ServeHTTP up to the pick: the router has returned group g
StartRequest(r, g, limit) ==
    /\ ~crashed
    /\ req[r].pc = "idle"
    /\ started < limit
    /\ started' = started + 1
    /\ req' = [req EXCEPT ![r] = [IdleReq EXCEPT !.pc = "scan", !.group = g,
                                      !.key = g, !.i = 1,
                                      !.Path = StripPath(router, hreq),
                                      !.avoid = {b \in Backends :
                                          GroupOf(b) = g /\ AppliedEjected(b)},
                                      !.allDown = \A b \in Backends :
                                          GroupOf(b) = g => ~IsHealthy(b)]]
    /\ UNCHANGED <<connections, roundRobinIndex, picks>>
    /\ UNCHANGED unchangedByPick

\* a plausible slip: the empty healthy set is answered like an upstream failure
NoHealthyBackendsAs502(q) ==
    [q EXCEPT !.pc = "done", !.status = 502,
              !.body = "Backend service unavailable", !.i = 0]

\* handleError(w, r, "no healthy backends available", 503)
NoHealthyBackends(q) ==
    [q EXCEPT !.pc = "done", !.status = 503,
              !.body = "no healthy backends available", !.i = 0]

\* a plausible slip: the group's cursor is advanced before the filtered list
\* is found empty
ScanBackendAdvancing(r) ==
    LET q  == req[r]
        b  == Targets[q.group][q.i]
        hb == IF IsHealthy(b) THEN Append(q.hb, b) ELSE q.hb
    IN  /\ ~crashed
        /\ q.pc = "scan"
        /\ req' = [req EXCEPT ![r] =
                     IF q.i < Len(Targets[q.group])
                     THEN [q EXCEPT !.hb = hb, !.i = q.i + 1]
                     ELSE IF hb = <<>> THEN NoHealthyBackends(q)
                     ELSE [q EXCEPT !.hb = hb, !.i = 1, !.cur = -1, !.pc = SelectPC]]
        /\ roundRobinIndex' =
              IF q.i = Len(Targets[q.group]) /\ hb = <<>>
              THEN [roundRobinIndex EXCEPT ![q.group] = AddInt32One(@)]
              ELSE roundRobinIndex
        /\ UNCHANGED <<connections, picks, started>>
        /\ UNCHANGED unchangedByPick

\* GetBackendForConfig: one turn of the loop that filters by IsHealthy; after
\* the last backend, nil when the filtered list is empty
ScanBackend(r) ==
    LET q  == req[r]
        b  == Targets[q.group][q.i]
        hb == IF IsHealthy(b) THEN Append(q.hb, b) ELSE q.hb
    IN  /\ ~crashed
        /\ q.pc = "scan"
        /\ req' = [req EXCEPT ![r] =
                     IF q.i < Len(Targets[q.group])
                     THEN [q EXCEPT !.hb = hb, !.i = q.i + 1]
                     ELSE IF hb = <<>> THEN NoHealthyBackends(q)
                     ELSE [q EXCEPT !.hb = hb, !.i = 1, !.cur = -1, !.pc = SelectPC]]
        /\ UNCHANGED <<connections, roundRobinIndex, picks, started>>
        /\ UNCHANGED unchangedByPick

\* roundRobinForConfig: currentIndex, ok := lb.roundRobinIndex[configName]
RRRead(r) ==
    LET q == req[r]
    IN  /\ ~crashed
        /\ q.pc = "rr_read"
        /\ req' = [req EXCEPT ![r] =
                     [q EXCEPT !.pc = "rr_write",
                               !.cur = IF q.key \in DOMAIN roundRobinIndex
                                       THEN roundRobinIndex[q.key] ELSE 0]]
        /\ UNCHANGED <<connections, roundRobinIndex, picks, started>>
        /\ UNCHANGED unchangedByPick

\* a plausible slip: the index is taken from next instead of next-1
RRIndexFromNext(cur, n) == GoRem(AddInt32One(cur), n)

\* index := int(next-1) % len(backends), with next the int32 currentIndex+1
RRIndex(cur, n) == GoRem(SubInt32One(AddInt32One(cur)), n)

\* roundRobinForConfig: the index, backends[index] (a panic when the index is
\* out of range), then lb.roundRobinIndex[configName] = next
RRWrite(r) ==
    LET q     == req[r]
        next  == AddInt32One(q.cur)
        index == RRIndex(q.cur, Len(q.hb))
    IN  /\ ~crashed
        /\ q.pc = "rr_write"
        /\ IF index < 0
           THEN /\ req' = [req EXCEPT ![r] = [q EXCEPT !.pc = "panicked"]]
                /\ UNCHANGED roundRobinIndex
           ELSE /\ req' = [req EXCEPT ![r] = [q EXCEPT !.pc = "inc",
                                                  !.backend = q.hb[index + 1]]]
                /\ roundRobinIndex' =
                      [k \in DOMAIN roundRobinIndex \cup {q.key} |->
                          IF k = q.key THEN next ELSE roundRobinIndex[k]]
        /\ UNCHANGED <<connections, picks, started>>
        /\ UNCHANGED unchangedByPick

\* the map is written with only the read lock held: when another pick is
\* reading or writing it at the same moment the Go runtime may stop the
\* process ("concurrent map writes", "concurrent map read and map write")
MapFatal(r) ==
    /\ ~crashed
    /\ req[r].pc = "rr_write"
    /\ \E r2 \in Reqs \ {r} : req[r2].pc \in {"rr_read", "rr_write"}
    /\ crashed' = TRUE
    /\ UNCHANGED <<checker, probeLog, hc, healthy, connections, roundRobinIndex,
                   cfgLB, algorithm, routerVars, serverVars, req, pendingDec, picks, decs, started>>

\* a plausible slip: the scan takes a backend that ties with the minimum
LCScanLastMin(r) ==
    LET q == req[r]
        b == q.hb[q.i]
        c == connections[b]
        better == q.cur = -1 \/ c <= q.cur
        q1 == IF better THEN [q EXCEPT !.cur = c, !.backend = b] ELSE q
    IN  /\ ~crashed
        /\ q.pc = "lc"
        /\ req' = [req EXCEPT ![r] =
                     IF q.i < Len(q.hb) THEN [q1 EXCEPT !.i = q.i + 1]
                     ELSE [q1 EXCEPT !.pc = "inc"]]
        /\ UNCHANGED <<connections, roundRobinIndex, picks, started>>
        /\ UNCHANGED unchangedByPick

\* leastConnections: one turn of the loop over the healthy list
LCScan(r) ==
    LET q == req[r]
        b == q.hb[q.i]
        c == connections[b]
        better == q.cur = -1 \/ c < q.cur
        q1 == IF better THEN [q EXCEPT !.cur = c, !.backend = b] ELSE q
    IN  /\ ~crashed
        /\ q.pc = "lc"
        /\ req' = [req EXCEPT ![r] =
                     IF q.i < Len(q.hb) THEN [q1 EXCEPT !.i = q.i + 1]
                     ELSE [q1 EXCEPT !.pc = "inc"]]
        /\ UNCHANGED <<connections, roundRobinIndex, picks, started>>
        /\ UNCHANGED unchangedByPick

RECURSIVE TotalWeight(_)
TotalWeight(hb) == IF hb = <<>> THEN 0 ELSE Weight[Head(hb)] + TotalWeight(Tail(hb))

\* a plausible slip: the walk stops at random <= currentWeight
WeightedIndexInclusive(hb, random) ==
    LET hit == {j \in 1..Len(hb) : random <= TotalWeight(SubSeq(hb, 1, j))}
    IN  IF hit = {} THEN 0 ELSE CHOOSE j \in hit : \A k \in hit : j <= k

\* weighted: the index of the first backend whose running weight exceeds
\* random, 0 when there is none
WeightedIndex(hb, random) ==
    LET hit == {j \in 1..Len(hb) : random < TotalWeight(SubSeq(hb, 1, j))}
    IN  IF hit = {} THEN 0 ELSE CHOOSE j \in hit : \A k \in hit : j <= k

\* weighted: zero total weight falls back to roundRobin (cursor "default");
\* else a draw in [0, totalWeight) and the walk; with no hit, backends[0]
\* is returned without an increment
WeightedPick(r) ==
    LET q     == req[r]
        total == TotalWeight(q.hb)
    IN  /\ ~crashed
        /\ q.pc = "weighted"
        /\ IF total = 0
           THEN req' = [req EXCEPT ![r] = [q EXCEPT !.pc = "rr_read", !.key = "default"]]
           ELSE \E random \in 0..(total - 1) :
                  LET j == WeightedIndex(q.hb, random)
                  IN  req' = [req EXCEPT ![r] =
                                IF j = 0
                                THEN [q EXCEPT !.pc = "forward", !.backend = q.hb[1],
                                               !.connBefore = connections[q.hb[1]]]
                                ELSE [q EXCEPT !.pc = "inc", !.backend = q.hb[j],
                                               !.cur = random]]
        /\ UNCHANGED <<connections, roundRobinIndex, picks, started>>
        /\ UNCHANGED unchangedByPick

\* backend.IncrementConnections(); go func() { sleep; decrement }(); return
Increment(r, hist) ==
    LET q == req[r]
        b == q.backend
    IN  /\ ~crashed
        /\ q.pc = "inc"
        /\ connections' = [connections EXCEPT ![b] = IncrementConnections(@)]
        /\ picks' = IF hist THEN [picks EXCEPT ![b] = @ + 1] ELSE picks
        /\ req' = [req EXCEPT ![r] = [q EXCEPT !.pc = "forward", !.i = 0, !.cur = 0,
                                          !.cleanup = "sleeping",
                                          !.connBefore = connections[b]]]
        /\ UNCHANGED <<roundRobinIndex, started>>
        /\ UNCHANGED unchangedByPick

\* the upstream's answers and the transport errors of a forwarded request
UpstreamStatus == {200, 500}
TransportErrors == {"connection refused", "no such host", "timeout", "EOF"}
\* ErrorHandler: strings.Contains(err.Error(), ...) for the three kinds
IsConnectionError(err) == err \in {"connection refused", "no such host", "timeout"}

\* strings.Split(s, sep)[0], for a one-character sep
FirstPiece(s, sep) ==
    LET at == {i \in 1..Len(s) : s[i] = sep}
    IN  IF at = {} THEN s
        ELSE SubSeq(s, 1, (CHOOSE i \in at : \A j \in at : i <= j) - 1)
\* strings.TrimSpace
RECURSIVE TrimSpace(_)
TrimSpace(s) ==
    IF s = <<>> THEN s
    ELSE IF Head(s) = " " THEN TrimSpace(Tail(s))
    ELSE IF s[Len(s)] = " " THEN TrimSpace(SubSeq(s, 1, Len(s) - 1))
    ELSE s
\* strings.Join(values, ", ")
RECURSIVE JoinComma(_)
JoinComma(values) ==
    IF values = <<>> THEN <<>>
    ELSE IF Len(values) = 1 THEN values[1]
    ELSE values[1] \o <<",", " ">> \o JoinComma(Tail(values))
\* net.SplitHostPort, the host: what precedes the last colon, without the
\* brackets of an IPv6 literal
SplitHostPort(hostport) ==
    LET at == {i \in 1..Len(hostport) : hostport[i] = ":"}
        last == CHOOSE i \in at : \A j \in at : j <= i
    IN  IF Head(hostport) = "[" THEN SubSeq(hostport, 2, last - 2)
        ELSE SubSeq(hostport, 1, last - 1)

\* Handler.getClientIP: the first element of X-Forwarded-For, else X-Real-IP,
\* else what precedes the first colon of RemoteAddr
getClientIP(header, remoteAddr) ==
    LET xff == HeaderGet(header, "X-Forwarded-For")
        xrip == HeaderGet(header, "X-Real-IP")
    IN  IF xff # <<>> THEN TrimSpace(FirstPiece(xff, ","))
        ELSE IF xrip # <<>> THEN TrimSpace(xrip)
        ELSE FirstPiece(remoteAddr, ":")

HTTPS == <<"h", "t", "t", "p", "s">>
\* Handler.addProxyHeaders: getClientIP is called again once X-Forwarded-For
\* has been written
addProxyHeaders(header, remoteAddr) ==
    LET ip1 == getClientIP(header, remoteAddr)
        existing == HeaderGet(header, "X-Forwarded-For")
        h1 == IF ip1 = <<>> THEN header
              ELSE HeaderSet(header, "X-Forwarded-For",
                             IF existing # <<>> THEN existing \o <<",", " ">> \o ip1
                             ELSE ip1)
        ip2 == getClientIP(h1, remoteAddr)
        h2 == IF ip2 = <<>> THEN h1 ELSE HeaderSet(h1, "X-Real-IP", ip2)
    IN  HeaderSet(h2, "X-Forwarded-Proto", HTTPS)

\* the targets of the model are of the form scheme://host:port, without a path
TargetPath == <<>>

\* a plausible slip: the two paths are concatenated as they are
singleJoiningPlain(a, b) == a \o b

\* httputil singleJoiningSlash(a, b), by which the Director of
\* NewSingleHostReverseProxy joins the target's path and the request's
singleJoiningSlash(a, b) ==
    LET aslash == HasSuffix(a, <<"/">>)
        bslash == HasPrefix(b, <<"/">>)
    IN  IF aslash /\ bslash THEN a \o Tail(b)
        ELSE IF ~aslash /\ ~bslash THEN a \o <<"/">> \o b
        ELSE a \o b

\* httputil.ReverseProxy.ServeHTTP with the Director of createReverseProxy:
\* the path is joined to the target's, the query is kept, the Director sets
\* X-Forwarded-Proto and X-Forwarded-Port, and the proxy then appends the host
\* of RemoteAddr to the X-Forwarded-For values it finds
Outgoing(path, query, header, remoteAddr) ==
    LET d == HeaderSet(HeaderSet(header, "X-Forwarded-Proto", HTTPS),
                       "X-Forwarded-Port", <<"4", "4", "3">>)
        prior == IF "X-Forwarded-For" \in DOMAIN d THEN d["X-Forwarded-For"] ELSE <<>>
        clientIP == SplitHostPort(remoteAddr)
    IN  [Path |-> singleJoiningSlash(TargetPath, path),
         RawQuery |-> query,
         Header |-> HeaderSet(d, "X-Forwarded-For",
                              IF Len(prior) > 0
                              THEN JoinComma(prior) \o <<",", " ">> \o clientIP
                              ELSE clientIP)]

\* ServeHTTP from the pick to the upstream, for the request in slot r:
\* addProxyHeaders(r), then the request that proxy.ServeHTTP sends
Upstream(r) ==
    Outgoing(req[r].Path, hreq.RawQuery,
             addProxyHeaders(hreq.Header, hreq.RemoteAddr), hreq.RemoteAddr)

\* Backend.Name: fmt.Sprintf("%s-%s", cfg.Name, target)
Name(b) == NameOf(url, b)
\* a series of a GaugeVec that no WithLabelValues has created yet
NoSample == -1
\* NewMetrics: backend_requests_total and backend_health_status, no sample yet
NewMetrics ==
    [nil |-> FALSE,
     BackendRequests |-> [n \in {Name(b) : b \in Backends} |->
                            [success |-> 0, error |-> 0]],
     BackendHealthStatus |-> [n \in {Name(b) : b \in Backends} |-> NoSample]]
\* if h.metrics != nil { h.metrics.RecordBackendRequest(backend.Name, status, 0) }
RecordBackendRequest(m, name, status) ==
    IF m.nil THEN m
    ELSE [m EXCEPT !.BackendRequests[name][status] = @ + 1]

\* a plausible slip: a 5xx answer is taken for a failure of the backend
ForwardResponseCounting5xx(r, code) ==
    LET q == req[r]
    IN  /\ ~crashed
        /\ q.pc = "forward"
        /\ req' = [req EXCEPT ![r] = [q EXCEPT !.pc = "done", !.status = code,
                                          !.body = "upstream",
                                          !.calls = q.calls + 1]]
        /\ metrics' = RecordBackendRequest(metrics, Name(q.backend), "success")
        /\ healthy' = IF code >= 500
                      THEN [healthy EXCEPT ![q.backend] = SetHealthy(FALSE)]
                      ELSE healthy
        /\ UNCHANGED <<checker, probeLog, hc, connections, roundRobinIndex,
                       cfgLB, algorithm, routerVars, url, srv, old, pendingDec, picks,
                       decs, started, crashed>>

\* proxy.ServeHTTP with an upstream response: ModifyResponse counts it and the
\* status is forwarded
ForwardResponse(r, code) ==
    LET q == req[r]
    IN  /\ ~crashed
        /\ q.pc = "forward"
        /\ req' = [req EXCEPT ![r] = [q EXCEPT !.pc = "done", !.status = code,
                                          !.body = "upstream",
                                          !.calls = q.calls + 1]]
        /\ metrics' = RecordBackendRequest(metrics, Name(q.backend), "success")
        /\ UNCHANGED <<checker, probeLog, hc, healthy, connections, roundRobinIndex,
                       cfgLB, algorithm, routerVars, url, srv, old, pendingDec, picks,
                       decs, started, crashed>>

\* proxy.ServeHTTP with a transport error: the ErrorHandler marks the backend
\* unhealthy on a connection error, counts the error and answers 502; with
\* hist the error it logged is kept with the request
ForwardError(r, err, hist) ==
    LET q == req[r]
    IN  /\ ~crashed
        /\ q.pc = "forward"
        /\ healthy' = IF IsConnectionError(err)
                      THEN [healthy EXCEPT ![q.backend] = SetHealthy(FALSE)]
                      ELSE healthy
        /\ req' = [req EXCEPT ![r] = [q EXCEPT !.pc = "done", !.calls = q.calls + 1,
                                          !.status = 502,
                                          !.err = IF hist THEN err ELSE "",
                                          !.body = "Backend service unavailable"]]
        /\ metrics' = RecordBackendRequest(metrics, Name(q.backend), "error")
        /\ UNCHANGED <<checker, probeLog, hc, connections, roundRobinIndex,
                       cfgLB, algorithm, routerVars, url, srv, old, pendingDec, picks,
                       decs, started, crashed>>

\* the cleanup goroutine of the pick made for slot r: 100ms after the pick
CleanupOwn(r, hist) ==
    LET q == req[r]
        b == q.backend
    IN  /\ ~crashed
        /\ q.cleanup = "sleeping"
        /\ connections' = [connections EXCEPT ![b] = DecrementConnections(@)]
        /\ decs' = IF hist THEN [decs EXCEPT ![b] = @ + 1] ELSE decs
        /\ req' = [req EXCEPT ![r] = [q EXCEPT !.cleanup = "done"]]
        /\ UNCHANGED <<checker, probeLog, hc, healthy, roundRobinIndex, cfgLB,
                       algorithm, routerVars, serverVars, pendingDec, picks, started, crashed>>

\* the cleanup goroutine of a pick whose request has left its slot
CleanupOrphan(b, hist) ==
    /\ ~crashed
    /\ pendingDec[b] > 0
    /\ connections' = [connections EXCEPT ![b] = DecrementConnections(@)]
    /\ decs' = IF hist THEN [decs EXCEPT ![b] = @ + 1] ELSE decs
    /\ pendingDec' = [pendingDec EXCEPT ![b] = @ - 1]
    /\ UNCHANGED <<checker, probeLog, hc, healthy, roundRobinIndex, cfgLB,
                   algorithm, routerVars, serverVars, req, picks, started, crashed>>

\* the connection's goroutine takes the next request; a cleanup goroutine
\* still sleeping goes on alone
Recycle(r) ==
    LET q == req[r]
    IN  /\ ~crashed
        /\ q.pc \in {"done", "panicked"}
        /\ req' = [req EXCEPT ![r] = IdleReq]
        /\ pendingDec' = IF q.cleanup = "sleeping"
                         THEN [pendingDec EXCEPT ![q.backend] = @ + 1]
                         ELSE pendingDec
        /\ UNCHANGED <<checker, probeLog, hc, healthy, connections, roundRobinIndex,
                       cfgLB, algorithm, routerVars, serverVars, picks, decs, started, crashed>>

(***************************************************************************)
(* The proxy with its health tasks, serving one request at a time.         *)
(***************************************************************************)
OneSlot == {1}

Next ==
    \/ \E b \in Checked, success \in BOOLEAN : HealthTick(b, success)
    \/ \E b \in Checked : HealthApply(b)
    \/ \E r \in OneSlot, g \in Groups : StartRequest(r, g, MaxRequests)
    \/ \E r \in OneSlot : ScanBackend(r)
    \/ \E r \in OneSlot : RRRead(r)
    \/ \E r \in OneSlot : RRWrite(r)
    \/ \E r \in OneSlot : LCScan(r)
    \/ \E r \in OneSlot : WeightedPick(r)
    \/ \E r \in OneSlot : Increment(r, FALSE)
    \/ \E r \in OneSlot, code \in UpstreamStatus : ForwardResponse(r, code)
    \/ \E r \in OneSlot, err \in TransportErrors : ForwardError(r, err, FALSE)
    \/ \E r \in OneSlot : CleanupOwn(r, FALSE)
    \/ \E b \in Backends : CleanupOrphan(b, FALSE)
    \/ \E r \in OneSlot : Recycle(r)

Spec == Init /\ [][Next]_vars

(***************************************************************************)
(* Concurrent requests, with no health task running.                       *)
(***************************************************************************)
NextConn ==
    \/ \E r \in Reqs, g \in Groups : StartRequest(r, g, MaxConnRequests)
    \/ \E r \in Reqs : ScanBackend(r)
    \/ \E r \in Reqs : RRRead(r)
    \/ \E r \in Reqs : RRWrite(r)
    \/ \E r \in Reqs : MapFatal(r)
    \/ \E r \in Reqs : LCScan(r)
    \/ \E r \in Reqs : WeightedPick(r)
    \/ \E r \in Reqs : Increment(r, TRUE)
    \/ \E r \in Reqs, code \in UpstreamStatus : ForwardResponse(r, code)
    \/ \E r \in Reqs, err \in TransportErrors : ForwardError(r, err, FALSE)
    \/ \E r \in Reqs : CleanupOwn(r, TRUE)
    \/ \E b \in Backends : CleanupOrphan(b, TRUE)
    \/ \E r \in Reqs : Recycle(r)

SpecConn == Init /\ [][NextConn]_vars

(***************************************************************************)
(* Picks issued one at a time against fixed healthy flags.                 *)
(***************************************************************************)
InitSeq ==
    /\ \E a \in Algorithms : cfgLB = [g \in Groups |-> a]
    /\ checker = [b \in Backends |-> NewChecker(0, 0)]
    /\ healthy \in [Backends -> {0, 1}]
    /\ InitCommon
    /\ InitRouterIdle
    /\ InitServerIdle

StartRequestSeq(r, g) ==
    /\ \A r2 \in Reqs : req[r2].pc \notin Picking
    /\ StartRequest(r, g, MaxSeqRequests)

NextSeq ==
    \/ \E r \in OneSlot, g \in Groups : StartRequestSeq(r, g)
    \/ \E r \in OneSlot : ScanBackend(r)
    \/ \E r \in OneSlot : RRRead(r)
    \/ \E r \in OneSlot : RRWrite(r)
    \/ \E r \in OneSlot : LCScan(r)
    \/ \E r \in OneSlot : WeightedPick(r)
    \/ \E r \in OneSlot : Increment(r, TRUE)
    \/ \E r \in OneSlot, code \in UpstreamStatus : ForwardResponse(r, code)
    \/ \E r \in OneSlot : CleanupOwn(r, TRUE)
    \/ \E b \in Backends : CleanupOrphan(b, TRUE)
    \/ \E r \in OneSlot : Recycle(r)

SpecSeq == InitSeq /\ [][NextSeq]_vars

(***************************************************************************)
(* Groups with strategies of their own, declared in either order; picks    *)
(* issued one at a time.                                                   *)
(***************************************************************************)
DeclOrders == {<<"g1", "g2">>, <<"g2", "g1">>}

InitMixed ==
    /\ cfgLB \in [Groups -> Algorithms]
    /\ \E order \in DeclOrders : algorithm = NewAlgorithmIn(order, cfgLB)
    /\ checker = [b \in Backends |-> NewChecker(0, 0)]
    /\ healthy = [b \in Backends |-> 1]
    /\ probeLog = [b \in Backends |-> <<>>]
    /\ hc = [b \in Backends |-> IdleTask]
    /\ connections = [b \in Backends |-> 0]
    /\ roundRobinIndex = [g \in Groups |-> 0]
    /\ req = [r \in Reqs |-> IdleReq]
    /\ pendingDec = [b \in Backends |-> 0]
    /\ picks = [b \in Backends |-> 0]
    /\ decs = [b \in Backends |-> 0]
    /\ started = 0
    /\ crashed = FALSE
    /\ InitRouterIdle
    /\ InitServerIdle

StartRequestMixed(r, g) ==
    /\ \A r2 \in Reqs : req[r2].pc \notin Picking
    /\ StartRequest(r, g, MaxMixRequests)

NextMixed ==
    \/ \E r \in OneSlot, g \in Groups : StartRequestMixed(r, g)
    \/ \E r \in OneSlot : ScanBackend(r)
    \/ \E r \in OneSlot : RRRead(r)
    \/ \E r \in OneSlot : RRWrite(r)
    \/ \E r \in OneSlot : LCScan(r)
    \/ \E r \in OneSlot : WeightedPick(r)
    \/ \E r \in OneSlot : Increment(r, TRUE)
    \/ \E r \in OneSlot, code \in UpstreamStatus : ForwardResponse(r, code)
    \/ \E r \in OneSlot : CleanupOwn(r, TRUE)
    \/ \E b \in Backends : CleanupOrphan(b, TRUE)
    \/ \E r \in OneSlot : Recycle(r)

SpecMixed == InitMixed /\ [][NextMixed]_vars

(***************************************************************************)
(* One pick examined on its own: any healthy flags, any connection counts  *)
(* left by earlier picks whose cleanup has not run, no step of another     *)
(* goroutine during the pick.                                              *)
(***************************************************************************)
InitPick ==
    /\ \E a \in Algorithms : cfgLB = [g \in Groups |-> a]
    /\ algorithm = NewAlgorithm(cfgLB)
    /\ checker = [b \in Backends |-> NewChecker(0, 0)]
    /\ healthy \in [Backends -> {0, 1}]
    /\ probeLog = [b \in Backends |-> <<>>]
    /\ hc = [b \in Backends |-> IdleTask]
    /\ connections \in [Backends -> 0..MaxConn]
    /\ roundRobinIndex = [g \in Groups |-> 0]
    /\ req = [r \in Reqs |-> IdleReq]
    /\ pendingDec = connections
    /\ picks = connections
    /\ decs = [b \in Backends |-> 0]
    /\ started = 0
    /\ crashed = FALSE
    /\ InitRouterIdle
    /\ InitServerIdle

NextPick ==
    \/ \E r \in OneSlot, g \in Groups : StartRequest(r, g, MaxPickRequests)
    \/ \E r \in OneSlot : ScanBackend(r)
    \/ \E r \in OneSlot : RRRead(r)
    \/ \E r \in OneSlot : RRWrite(r)
    \/ \E r \in OneSlot : LCScan(r)
    \/ \E r \in OneSlot : WeightedPick(r)
    \/ \E r \in OneSlot : Increment(r, TRUE)

SpecPick == InitPick /\ [][NextPick]_vars

(***************************************************************************)
(* The router's inputs.                                                    *)
(***************************************************************************)
SeqsUpTo(S, n) == UNION {[1..k -> S] : k \in 0..n}
\* the path / e1 / e2 / ... ; an empty element gives a doubled or final slash
Rooted(elems) == <<"/">> \o Join(elems)

MkRule(path, prefix, host, methods, headers, backend, priority) ==
    [Path |-> path, PathPrefix |-> prefix, Host |-> host, Methods |-> methods,
     Headers |-> headers, Backend |-> backend, Priority |-> priority,
     StripPrefix |-> FALSE]
\* the rule with strip_prefix: true
Stripping(rule) == [rule EXCEPT !.StripPrefix = TRUE]

\* the state of the balancer and the handler after construction
InitBalancerIdle ==
    /\ cfgLB = [g \in Groups |-> "round_robin"]
    /\ checker = [b \in Backends |-> NewChecker(0, 0)]
    /\ healthy = [b \in Backends |-> 1]
    /\ InitCommon
    /\ InitServerIdle

(***************************************************************************)
(* Router.matchPath on its own: any request path, any pattern.             *)
(***************************************************************************)
PathElems == {<<>>, <<"a">>, <<"a", "b">>, <<"b">>, <<".", ".">>}
PatternElems == {<<"a">>, <<"b">>, <<"*">>}
RequestPaths == {Rooted(e) : e \in SeqsUpTo(PathElems, MaxPathElems)}
Patterns == {Rooted(e) : e \in SeqsUpTo(PatternElems, MaxPatternElems)}

InitPath ==
    /\ InitBalancerIdle
    /\ \E pat \in Patterns :
          routing = [Rules |-> <<MkRule(pat, <<>>, "", <<>>, <<>>, "g1", 0)>>,
                     DefaultBackend |-> ""]
    /\ router \in NewRouter(routing)
    /\ \E p \in RequestPaths : hreq = [NoRequest EXCEPT !.Path = p]
    /\ mres = NoResult

unchangedByMatch == <<checker, probeLog, hc, healthy, connections, roundRobinIndex,
                      cfgLB, algorithm, routing, router, hreq, serverVars, req, pendingDec,
                      picks, decs, started, crashed>>

\* r.matchPath(req.URL.Path, rule.Path) for the one rule
MatchPathStep ==
    /\ ~mres.done
    /\ mres' = [done |-> TRUE, ok |-> matchPath(hreq.Path, routing.Rules[1].Path)]
    /\ UNCHANGED unchangedByMatch

NextPath == MatchPathStep

SpecPath == InitPath /\ [][NextPath]_vars

(***************************************************************************)
(* Router.matchRule on its own: one rule with any of its predicates        *)
(* declared, any request.                                                  *)
(***************************************************************************)
GET == <<"G", "E", "T">>
RulePaths == {<<>>, <<"/", "a", "/", "*">>, <<"/", "a", "/", "b">>}
RulePrefixes == {<<>>, <<"/", "a">>, <<"/", "a", "/", "b">>}
RuleHosts == {"", "a.example"}
RuleMethods == {<<>>, <<GET>>, <<<<"p", "o", "s", "t">>, <<"P", "U", "T">>>>}
PROD == <<"p", "r", "o", "d">>
DEV == <<"d", "e", "v">>
RuleHeaders == {<<>>, [k \in {"x-env"} |-> PROD],
                [k \in {"X-Env", "X-Id"} |-> IF k = "X-Env" THEN PROD ELSE <<"7">>]}
ReqPaths == {<<"/", "a">>, <<"/", "a", "/", "b">>, <<"/", "a", "b">>, <<"/", "b">>}
ReqHosts == {"a.example", "b.example"}
ReqMethods == {GET, <<"P", "O", "S", "T">>, <<"p", "u", "t">>}
ReqHeaders == {<<>>, [k \in {"X-Env"} |-> <<PROD>>], [k \in {"X-Env"} |-> <<DEV>>],
               [k \in {"X-Env", "X-Id"} |-> IF k = "X-Env" THEN <<PROD>> ELSE <<<<"7">>>>]}

InitRule ==
    /\ InitBalancerIdle
    /\ \E path \in RulePaths, prefix \in RulePrefixes, host \in RuleHosts,
          methods \in RuleMethods, headers \in RuleHeaders :
          routing = [Rules |-> <<MkRule(path, prefix, host, methods, headers, "g1", 0)>>,
                     DefaultBackend |-> ""]
    /\ router \in NewRouter(routing)
    /\ \E path \in ReqPaths, host \in ReqHosts, method \in ReqMethods,
          header \in ReqHeaders :
          hreq = [NoRequest EXCEPT !.Path = path, !.Host = host, !.Method = method,
                                   !.Header = header]
    /\ mres = NoResult

\* r.matchRule(req, &rule) for the one rule
MatchRuleStep ==
    /\ ~mres.done
    /\ mres' = [done |-> TRUE, ok |-> matchRule(hreq, routing.Rules[1])]
    /\ UNCHANGED unchangedByMatch

NextRule == MatchRuleStep

SpecRule == InitRule /\ [][NextRule]_vars

(***************************************************************************)
(* config.Load, NewRouter and Route: any rule list, any default backend.   *)
(***************************************************************************)
\* validate: the checks on cfg.Backends; cfg.Routing is not looked at
validate(cfg) ==
    /\ Len(ConfigOrder) > 0
    /\ \A g \in Groups :
          /\ g # ""
          /\ Len(Targets[g]) > 0
          /\ cfgLB[g] \in Algorithms
    /\ \A b \in Backends : Weight[b] > 0

Priorities == 0..MaxPriority
\* names that rules and default_backend give: the groups and an undefined one
BackendNames == Groups \cup {"ghost"}
RouterRules ==
    {MkRule(path, <<>>, "", <<>>, <<>>, backend, priority) :
        path \in {<<"/", "a", "/", "*">>, <<"/", "b">>},
        backend \in BackendNames, priority \in Priorities}
RouterPaths == {<<"/", "a", "/", "b">>, <<"/", "b">>, <<"/", "c">>}

InitRouter ==
    /\ InitBalancerIdle
    /\ \E rules \in SeqsUpTo(RouterRules, MaxRules), default \in BackendNames \cup {""} :
          routing = [Rules |-> rules, DefaultBackend |-> default]
    /\ validate(routing)
    /\ router \in NewRouter(routing)
    /\ \E p \in RouterPaths : hreq = [NoRequest EXCEPT !.Path = p]
    /\ mres = NoResult

\* lb.backends: the backends in the order NewLoadBalancer appended them
RECURSIVE Flatten(_)
Flatten(order) ==
    IF order = <<>> THEN <<>> ELSE Targets[Head(order)] \o Flatten(Tail(order))
LBBackends == Flatten(ConfigOrder)

\* LoadBalancer.GetBackendStatus: a map from Backend.Name to the healthy flag;
\* of the backends with one name the last one written stays
GetBackendStatus ==
    [n \in {Name(b) : b \in Backends} |->
        LET at == {i \in 1..Len(LBBackends) : Name(LBBackends[i]) = n}
        IN  IsHealthy(LBBackends[CHOOSE i \in at : \A j \in at : j <= i])]

\* Handler.handleHealthCheck: the status code and the JSON body, from the
\* entries of GetBackendStatus
handleHealthCheck(q) ==
    LET backends == GetBackendStatus
        healthyCount == Cardinality({n \in DOMAIN backends : backends[n]})
        totalCount == Cardinality(DOMAIN backends)
    IN  [q EXCEPT !.pc = "done",
                  !.status = IF healthyCount = 0 THEN 503 ELSE 200,
                  !.json = [status |-> IF healthyCount = 0 THEN "unhealthy"
                                       ELSE IF healthyCount < totalCount THEN "degraded"
                                       ELSE "healthy",
                            healthy_backends |-> healthyCount,
                            total_backends |-> totalCount]]

HealthPath == <<"/", "h", "e", "a", "l", "t", "h">>

\* ServeHTTP up to the pick: /health is answered at once; else Route, on an
\* error 404, else the pick on the group
RouteRequest(r) ==
    LET g == Route(router, hreq)
    IN  IF hreq.Path = HealthPath \/ g = RouteErr
        THEN /\ ~crashed
             /\ req[r].pc = "idle"
             /\ started < MaxRouteRequests
             /\ started' = started + 1
             /\ req' = [req EXCEPT ![r] =
                          IF hreq.Path = HealthPath THEN handleHealthCheck(IdleReq)
                          ELSE [IdleReq EXCEPT !.pc = "done", !.status = 404,
                                               !.body = "routing error"]]
             /\ UNCHANGED <<connections, roundRobinIndex, picks>>
             /\ UNCHANGED unchangedByPick
        ELSE StartRequest(r, g, MaxRouteRequests)

\* the request is followed up to the router's answer: 404, or the start of
\* the pick on the group
NextRouter == \E r \in OneSlot : RouteRequest(r)

SpecRouter == InitRouter /\ [][NextRouter]_vars

(***************************************************************************)
(* ServeHTTP from the router to the upstream: rules with and without       *)
(* strip_prefix, any request path and query.                               *)
(***************************************************************************)
StripRules ==
    {MkRule(path, prefix, "", <<>>, <<>>, "g2", priority) :
        path \in {<<"/", "a", "/", "*">>, <<"/", "a", "/", "b">>}, prefix \in {<<>>},
        priority \in {0, 1}}
    \cup {MkRule(<<>>, <<"/", "a">>, "", <<>>, <<>>, "g2", priority) :
             priority \in {0, 1}}
StripPaths == {<<"/", "a", "/", "b">>, <<"/", "a">>, <<"/", "/", "a", "/", "b">>,
               <<"/", "a", "b">>, <<"/", "c">>}
RawQueries == {<<>>, <<"l", "=", "1">>}

InitStrip ==
    /\ InitBalancerIdle
    /\ \E rules \in SeqsUpTo(StripRules \cup {Stripping(rule) : rule \in StripRules},
                              MaxRules) :
          routing = [Rules |-> rules, DefaultBackend |-> "g2"]
    /\ validate(routing)
    /\ router \in NewRouter(routing)
    /\ \E p \in StripPaths, query \in RawQueries :
          hreq = [NoRequest EXCEPT !.Path = p, !.RawQuery = query]
    /\ mres = NoResult

\* one request, from the router to the upstream's answer
NextForward ==
    \/ \E r \in OneSlot : RouteRequest(r)
    \/ \E r \in OneSlot : ScanBackend(r)
    \/ \E r \in OneSlot : RRRead(r)
    \/ \E r \in OneSlot : RRWrite(r)
    \/ \E r \in OneSlot : Increment(r, FALSE)
    \/ \E r \in OneSlot, code \in UpstreamStatus : ForwardResponse(r, code)

SpecStrip == InitStrip /\ [][NextForward]_vars

(***************************************************************************)
(* The proxy headers: any inbound X-Forwarded-For and X-Real-IP, peers     *)
(* with IPv4 and IPv6 addresses.                                           *)
(***************************************************************************)
InboundXFF == {<<>>, <<"a">>, <<"a", ",", " ", "b">>}
InboundXRealIP == {<<>>, <<"r">>}
RemoteAddrs == {<<"c", ":", "9">>, <<"d", ":", "9">>, <<"[", ":", ":", "1", "]", ":", "9">>}
\* the header map of a request with the given values, "" for an absent header
InboundHeader(xff, xrip) ==
    [k \in (IF xff = <<>> THEN {} ELSE {"X-Forwarded-For"})
           \cup (IF xrip = <<>> THEN {} ELSE {"X-Real-Ip"}) |->
        IF k = "X-Forwarded-For" THEN <<xff>> ELSE <<xrip>>]

InitHeaders ==
    /\ InitBalancerIdle
    /\ routing = NoRouting
    /\ router \in NewRouter(NoRouting)
    /\ \E xff \in InboundXFF, xrip \in InboundXRealIP, addr \in RemoteAddrs :
          hreq = [NoRequest EXCEPT !.Header = InboundHeader(xff, xrip),
                                   !.RemoteAddr = addr]
    /\ mres = NoResult

SpecHeaders == InitHeaders /\ [][NextForward]_vars

(***************************************************************************)
(* GET /health: any healthy flags, targets listed once or more than once.  *)
(***************************************************************************)
\* the targets a configuration can list; validate does not compare them
TargetURLs == {"u1", "u2"}
HealthPaths == {HealthPath, HealthPath \o <<"/">>, <<"/">>}

InitHealth ==
    /\ cfgLB = [g \in Groups |-> "round_robin"]
    /\ checker = [b \in Backends |-> NewChecker(0, 0)]
    /\ healthy \in [Backends -> {0, 1}]
    /\ InitCommon
    /\ url \in [Backends -> TargetURLs]
    /\ metrics = NoMetrics
    /\ srv = Running
    /\ old = NoOldTasks
    /\ routing = NoRouting
    /\ router \in NewRouter(NoRouting)
    /\ \E p \in HealthPaths : hreq = [NoRequest EXCEPT !.Path = p]
    /\ mres = NoResult

SpecHealth == InitHealth /\ [][NextRouter]_vars

(***************************************************************************)
(* The outcomes of forwarded requests, with telemetry enabled and the      *)
(* health tasks running: responses of any status, transport errors.        *)
(***************************************************************************)
\* the statuses an upstream answers with, a 4xx among them
UpstreamCodes == UpstreamStatus \cup {404}

InitUpstream ==
    /\ cfgLB = [g \in Groups |-> "round_robin"]
    /\ checker = [b \in Backends |-> NewChecker(0, 0)]
    /\ healthy = [b \in Backends |-> 1]
    /\ InitCommon
    /\ InitRouterIdle
    /\ url = TargetURL
    /\ metrics = NewMetrics
    /\ srv = Running
    /\ old = NoOldTasks

NextUpstream ==
    \/ \E b \in Checked, success \in BOOLEAN : HealthTick(b, success)
    \/ \E b \in Checked : HealthApply(b)
    \/ \E r \in OneSlot, g \in Groups : StartRequest(r, g, MaxUpstreamRequests)
    \/ \E r \in OneSlot : ScanBackend(r)
    \/ \E r \in OneSlot : RRRead(r)
    \/ \E r \in OneSlot : RRWrite(r)
    \/ \E r \in OneSlot : Increment(r, FALSE)
    \/ \E r \in OneSlot, code \in UpstreamCodes : ForwardResponse(r, code)
    \/ \E r \in OneSlot, err \in TransportErrors : ForwardError(r, err, TRUE)
    \/ \E r \in OneSlot : Recycle(r)

SpecUpstream == InitUpstream /\ [][NextUpstream]_vars

(***************************************************************************)
(* cmd/proxy/main.go, Server.Shutdown: the process from the signal to its  *)
(* exit, with requests in flight on both listeners.                        *)
(***************************************************************************)
unchangedByServer == <<checker, probeLog, hc, healthy, connections, roundRobinIndex,
                       cfgLB, algorithm, routerVars, url, metrics, old, req, pendingDec,
                       picks, decs, started, crashed>>

\* the steps of main and Server.Shutdown between the signal and the exit
Draining == {"drain_http", "stop_quic"}
\* the steps of main before the servers serve
Startup == {"load", "new_manager", "new_server", "start"}

\* a listener that is open hands a request to the handler
Accept(l) ==
    /\ srv.pc \notin Startup \cup {"exited"}
    /\ srv.listener[l] = "open"
    /\ srv.accepted < MaxShutdownRequests
    /\ srv' = [srv EXCEPT !.inflight[l] = @ + 1, !.accepted = @ + 1,
                          !.late = IF srv.pc \in Draining THEN @ + 1 ELSE @]
    /\ UNCHANGED unchangedByServer

\* the handler returns and the response is written
Complete(l) ==
    /\ srv.pc # "exited"
    /\ srv.inflight[l] > 0
    /\ srv' = [srv EXCEPT !.inflight[l] = @ - 1]
    /\ UNCHANGED unchangedByServer

\* case sig := <-shutdown: ctx with a timeout of 30s, proxyServer.Shutdown(ctx)
Signal ==
    /\ srv.pc = "serving"
    /\ srv' = [srv EXCEPT !.pc = "stop_health"]
    /\ UNCHANGED unchangedByServer

\* the 30s of ctx elapse
Deadline ==
    /\ srv.pc \notin {"serving", "exited"}
    /\ ~srv.expired
    /\ srv' = [srv EXCEPT !.expired = TRUE]
    /\ UNCHANGED unchangedByServer

\* Server.Shutdown: s.loadBalancer.StopHealthChecks()
StopHealthChecks ==
    /\ srv.pc = "stop_health"
    /\ srv' = [srv EXCEPT !.pc = "stop_http", !.stopHealthCheck = "closed",
                          !.log = Append(@, "stop_health")]
    /\ UNCHANGED unchangedByServer

\* s.httpServer.Shutdown(ctx): the fallback listener is closed first
CloseFallback ==
    /\ srv.pc = "stop_http"
    /\ srv' = [srv EXCEPT !.pc = "drain_http", !.listener["fallback"] = "closed",
                          !.log = Append(@, "close_fallback")]
    /\ UNCHANGED unchangedByServer

\* s.httpServer.Shutdown(ctx) returns: its connections are idle, or ctx is done
DrainEnd ==
    /\ srv.pc = "drain_http"
    /\ srv.inflight["fallback"] = 0 \/ srv.expired
    /\ srv' = [srv EXCEPT !.pc = "stop_quic", !.log = Append(@, "drain_end")]
    /\ UNCHANGED unchangedByServer

\* s.quicServer.Shutdown(ctx): s.listener.Close() on the UDP socket, whatever
\* ctx says; the requests in flight on it can no longer be answered
CloseQUIC ==
    /\ srv.pc = "stop_quic"
    /\ srv' = [srv EXCEPT !.pc = "telemetry", !.listener["quic"] = "closed",
                          !.inflight["quic"] = 0,
                          !.cutEarly = IF srv.expired THEN @
                                       ELSE @ + srv.inflight["quic"],
                          !.log = Append(@, "close_quic")]
    /\ UNCHANGED unchangedByServer

\* main returns: defer telemetryManager.Shutdown closes the metrics server
TelemetryShutdown ==
    /\ srv.pc = "telemetry"
    /\ srv' = [srv EXCEPT !.pc = "exit", !.metricsServer = "closed",
                          !.log = Append(@, "close_metrics")]
    /\ UNCHANGED unchangedByServer

\* main has returned: the process exits with code 0 and what is still in
\* flight ends with it
Exit ==
    /\ srv.pc = "exit"
    /\ srv' = [srv EXCEPT !.pc = "exited", !.exit = 0,
                          !.cutEarly = IF srv.expired THEN @
                                       ELSE @ + srv.inflight["fallback"],
                          !.inflight = [l \in Listeners |-> 0]]
    /\ UNCHANGED unchangedByServer

InitShutdown ==
    /\ cfgLB = [g \in Groups |-> "round_robin"]
    /\ checker = [b \in Backends |-> NewChecker(0, 0)]
    /\ healthy = [b \in Backends |-> 1]
    /\ InitCommon
    /\ InitRouterIdle
    /\ url = TargetURL
    /\ metrics = NewMetrics
    /\ srv = Running
    /\ old = NoOldTasks

NextShutdown ==
    \/ \E b \in Checked, success \in BOOLEAN : HealthTick(b, success)
    \/ \E b \in Checked : HealthApply(b)
    \/ \E b \in Checked : HealthReturn(b)
    \/ \E l \in Listeners : Accept(l)
    \/ \E l \in Listeners : Complete(l)
    \/ Signal
    \/ Deadline
    \/ StopHealthChecks
    \/ CloseFallback
    \/ DrainEnd
    \/ CloseQUIC
    \/ TelemetryShutdown
    \/ Exit

SpecShutdown == InitShutdown /\ [][NextShutdown]_vars

(***************************************************************************)
(* cmd/proxy/main.go: the process from its start to its exit, with the     *)
(* failure the environment makes it meet.                                  *)
(***************************************************************************)
\* what can fail on the way: config.Load, telemetry.NewManager, loadTLSConfig,
\* net.ListenUDP, the fallback server's ListenAndServe, http3 Serve
Failures == {"none", "config", "telemetry", "tls", "bind", "fallback_bind", "serve"}

\* logrus.Fatal: the entry is logged and the process ends with os.Exit(1);
\* deferred calls do not run
Fatal == [srv EXCEPT !.pc = "exited", !.exit = 1]

\* the process before main has loaded anything
Starting(f) ==
    [Running EXCEPT !.pc = "load", !.failure = f,
                    !.listener = [l \in Listeners |-> "closed"],
                    !.metricsServer = "closed", !.stopHealthCheck = "open"]

\* cfg, err := config.Load(*configPath)
LoadConfig ==
    /\ srv.pc = "load"
    /\ srv' = IF srv.failure = "config" THEN Fatal
              ELSE [srv EXCEPT !.pc = "new_manager"]
    /\ UNCHANGED unchangedByServer

\* telemetryManager, err := telemetry.NewManager(cfg.Telemetry)
NewManager ==
    /\ srv.pc = "new_manager"
    /\ srv' = IF srv.failure = "telemetry" THEN Fatal
              ELSE [srv EXCEPT !.pc = "new_server", !.metricsServer = "open"]
    /\ UNCHANGED unchangedByServer

\* proxyServer, err := proxy.NewServer(cfg, telemetryManager): quic.NewServer
\* loads the certificate and binds the UDP socket
NewServer ==
    /\ srv.pc = "new_server"
    /\ srv' = IF srv.failure \in {"tls", "bind"} THEN Fatal
              ELSE [srv EXCEPT !.pc = "start", !.listener["quic"] = "open"]
    /\ UNCHANGED unchangedByServer

\* go proxyServer.Start(): the fallback server listens in its own goroutine,
\* and its error is only logged
Start ==
    /\ srv.pc = "start"
    /\ srv' = [srv EXCEPT !.pc = "serving",
                          !.listener["fallback"] =
                             IF srv.failure = "fallback_bind" THEN "closed" ELSE "open"]
    /\ UNCHANGED unchangedByServer

\* case err := <-serverErrors: the error is logged and main returns
ServeError ==
    /\ srv.pc = "serving"
    /\ srv.failure = "serve"
    /\ srv' = [srv EXCEPT !.pc = "telemetry"]
    /\ UNCHANGED unchangedByServer

InitExit ==
    /\ cfgLB = [g \in Groups |-> "round_robin"]
    /\ checker = [b \in Backends |-> NewChecker(0, 0)]
    /\ healthy = [b \in Backends |-> 1]
    /\ InitCommon
    /\ InitRouterIdle
    /\ url = TargetURL
    /\ metrics = NewMetrics
    /\ \E f \in Failures : srv = Starting(f)
    /\ old = NoOldTasks

NextExit ==
    \/ LoadConfig
    \/ NewManager
    \/ NewServer
    \/ Start
    \/ ServeError
    \/ \E l \in Listeners : Accept(l)
    \/ \E l \in Listeners : Complete(l)
    \/ Signal
    \/ Deadline
    \/ StopHealthChecks
    \/ CloseFallback
    \/ DrainEnd
    \/ CloseQUIC
    \/ TelemetryShutdown
    \/ Exit

SpecExit == InitExit /\ [][NextExit]_vars

(***************************************************************************)
(* Requests served one after the other, with transport errors, while the   *)
(* health tasks run.                                                       *)
(***************************************************************************)
InitPassive ==
    /\ cfgLB = [g \in Groups |-> "round_robin"]
    /\ checker = [b \in Backends |-> NewChecker(0, 0)]
    /\ healthy = [b \in Backends |-> 1]
    /\ InitCommon
    /\ InitRouterIdle
    /\ InitServerIdle

NextPassive ==
    \/ \E b \in Checked, success \in BOOLEAN : HealthTick(b, success)
    \/ \E b \in Checked : HealthApply(b)
    \/ \E r \in OneSlot, g \in Groups : StartRequest(r, g, MaxPassiveRequests)
    \/ \E r \in OneSlot : ScanBackend(r)
    \/ \E r \in OneSlot : RRRead(r)
    \/ \E r \in OneSlot : RRWrite(r)
    \/ \E r \in OneSlot : Increment(r, FALSE)
    \/ \E r \in OneSlot, code \in UpstreamStatus : ForwardResponse(r, code)
    \/ \E r \in OneSlot, err \in TransportErrors : ForwardError(r, err, FALSE)
    \/ \E r \in OneSlot : Recycle(r)

SpecPassive == InitPassive /\ [][NextPassive]_vars

(***************************************************************************)
(* Round-robin picks by a balancer that has already served so many requests *)
(* that a group's cursor is about to wrap.                                 *)
(***************************************************************************)
\* the cursor of a group after that many picks
WrapCursors == {0} \cup {MaxInt32 - k : k \in 0..WrapMargin}

InitWrap ==
    /\ cfgLB = [g \in Groups |-> "round_robin"]
    /\ algorithm = NewAlgorithm(cfgLB)
    /\ checker = [b \in Backends |-> NewChecker(0, 0)]
    /\ healthy \in [Backends -> {0, 1}]
    /\ probeLog = [b \in Backends |-> <<>>]
    /\ hc = [b \in Backends |-> IdleTask]
    /\ connections = [b \in Backends |-> 0]
    /\ roundRobinIndex \in [Groups -> WrapCursors]
    /\ req = [r \in Reqs |-> IdleReq]
    /\ pendingDec = [b \in Backends |-> 0]
    /\ picks = [b \in Backends |-> 0]
    /\ decs = [b \in Backends |-> 0]
    /\ started = 0
    /\ crashed = FALSE
    /\ InitRouterIdle
    /\ InitServerIdle

NextWrap ==
    \/ \E r \in OneSlot, g \in Groups : StartRequest(r, g, MaxWrapRequests)
    \/ \E r \in OneSlot : ScanBackend(r)
    \/ \E r \in OneSlot : RRRead(r)
    \/ \E r \in OneSlot : RRWrite(r)
    \/ \E r \in OneSlot : Increment(r, FALSE)
    \/ \E r \in OneSlot, code \in UpstreamStatus : ForwardResponse(r, code)
    \/ \E r \in OneSlot : Recycle(r)

SpecWrap == InitWrap /\ [][NextWrap]_vars

(***************************************************************************)
(* internal/proxy/loadbalancer.go: UpdateBackends with the same            *)
(* configuration, and the health tasks it leaves behind.  A task of a      *)
(* replaced configuration keeps its name n and its checker c; it finds the *)
(* backend to write in the current lb.backends, and it reads               *)
(* lb.stopHealthCheck anew each time it enters its select.                 *)
(***************************************************************************)
unchangedByOldTask == <<checker, probeLog, hc, connections, roundRobinIndex, cfgLB,
                        algorithm, routerVars, url, srv, req, pendingDec, picks, decs,
                        started, crashed>>

\* the task of a backend as UpdateBackends leaves it: in its select on the
\* channel that was closed, or between its probe and its write
Left(b) ==
    [pc |-> IF hc[b].pc = "wait" THEN "select_closed" ELSE "apply",
     healthy |-> hc[b].healthy, checker |-> checker[b]]

\* a task that waits on the channel UpdateBackends closes
Closed(t) == IF t.pc = "select" THEN [t EXCEPT !.pc = "select_closed"] ELSE t

\* UpdateBackends: close(lb.stopHealthCheck), new backends, checkers and
\* channel, go lb.StartHealthChecks()
UpdateBackends ==
    /\ ~crashed
    /\ srv.pc = "serving"
    /\ \A b \in Backends : Len(old[b]) < MaxUpdates
    /\ old' = [b \in Backends |->
                 IF b \in Checked
                 THEN Append([i \in 1..Len(old[b]) |-> Closed(old[b][i])], Left(b))
                 ELSE old[b]]
    /\ checker' = [b \in Backends |->
                     NewChecker(checker[b].HealthyThreshold, checker[b].UnhealthyThreshold)]
    /\ hc' = [b \in Backends |-> IdleTask]
    /\ healthy' = [b \in Backends |-> SetHealthy(TRUE)]
    /\ connections' = [b \in Backends |-> 0]
    /\ roundRobinIndex' = [g \in Groups |-> 0]
    /\ UNCHANGED <<probeLog, cfgLB, algorithm, routerVars, url, metrics, srv, req,
                   pendingDec, picks, decs, started, crashed>>

\* case <-ticker.C in a task of a replaced configuration: healthy := c.Check()
OldTick(b, i, success) ==
    LET t == old[b][i]
    IN  /\ ~crashed
        /\ srv.pc # "exited"
        /\ t.pc \in {"select", "select_closed"}
        /\ CanCheck(t.checker, success)
        /\ old' = [old EXCEPT ![b][i] =
                     [pc |-> "apply", checker |-> Check(t.checker, success),
                      healthy |-> Check(t.checker, success).isHealthy]]
        /\ UNCHANGED <<healthy, metrics>>
        /\ UNCHANGED unchangedByOldTask

\* the task finds the backend named n in lb.backends and writes its flag and
\* its gauge; its next select reads the channel lb.stopHealthCheck holds now
OldApply(b, i) ==
    LET t == old[b][i]
    IN  /\ ~crashed
        /\ srv.pc # "exited"
        /\ t.pc = "apply"
        /\ healthy' = [healthy EXCEPT ![b] = SetHealthy(t.healthy)]
        /\ metrics' = UpdateBackendHealth(metrics, NameOf(url, b), t.healthy)
        /\ old' = [old EXCEPT ![b][i].pc =
                     IF srv.stopHealthCheck = "closed" THEN "select_closed" ELSE "select"]
        /\ UNCHANGED unchangedByOldTask

\* case <-lb.stopHealthCheck in a task of a replaced configuration
OldReturn(b, i) ==
    /\ ~crashed
    /\ srv.pc # "exited"
    /\ old[b][i].pc = "select_closed"
    /\ old' = [old EXCEPT ![b][i].pc = "returned"]
    /\ UNCHANGED <<healthy, metrics>>
    /\ UNCHANGED unchangedByOldTask

InitReload ==
    /\ cfgLB = [g \in Groups |-> "round_robin"]
    /\ checker = [b \in Backends |-> NewChecker(0, 0)]
    /\ healthy = [b \in Backends |-> 1]
    /\ InitCommon
    /\ InitRouterIdle
    /\ url = TargetURL
    /\ metrics = NewMetrics
    /\ srv = Running
    /\ old = NoOldTasks

\* the backend whose ticker fires while the configuration is replaced
Ticking == {Targets[ConfigOrder[1]][1]}

\* the tasks of replaced configurations: a backend name and a position
OldTasks == {<<b, i>> \in Ticking \X (1..MaxUpdates) : i <= Len(old[b])}

NextReload ==
    \/ \E b \in Ticking, success \in BOOLEAN : HealthTick(b, success)
    \/ \E b \in Ticking : HealthApply(b)
    \/ UpdateBackends
    \/ \E t \in OldTasks, success \in BOOLEAN : OldTick(t[1], t[2], success)
    \/ \E t \in OldTasks : OldApply(t[1], t[2])
    \/ \E t \in OldTasks : OldReturn(t[1], t[2])

SpecReload == InitReload /\ [][NextReload]_vars

(***************************************************************************)
(* One request to a balancer that has already served some: routes to both  *)
(* groups, a path that only the default backend, which no group defines,   *)
(* takes, and /health, with any healthy flags.                             *)
(***************************************************************************)
FrameRouting ==
    [Rules |-> <<MkRule(<<"/", "a", "/", "*">>, <<>>, "", <<>>, <<>>, "g1", 1),
                 MkRule(<<"/", "b">>, <<>>, "", <<>>, <<>>, "g2", 0)>>,
     DefaultBackend |-> "ghost"]
FramePaths == RouterPaths \cup {HealthPath}
\* the cursor of a group after no pick, or after one
FrameCursors == {0, 1}

InitFrame ==
    /\ cfgLB = [g \in Groups |-> "round_robin"]
    /\ algorithm = NewAlgorithm(cfgLB)
    /\ checker = [b \in Backends |-> NewChecker(0, 0)]
    /\ healthy \in [Backends -> {0, 1}]
    /\ probeLog = [b \in Backends |-> <<>>]
    /\ hc = [b \in Backends |-> IdleTask]
    /\ connections \in [Backends -> 0..MaxConn]
    /\ roundRobinIndex \in [Groups -> FrameCursors]
    /\ req = [r \in Reqs |-> IdleReq]
    /\ pendingDec = connections
    /\ picks = connections
    /\ decs = [b \in Backends |-> 0]
    /\ started = 0
    /\ crashed = FALSE
    /\ InitServerIdle
    /\ routing = FrameRouting
    /\ router \in NewRouter(routing)
    /\ \E p \in FramePaths : hreq = [NoRequest EXCEPT !.Path = p]
    /\ mres = NoResult

SpecFrame == InitFrame /\ [][NextForward]_vars

(***************************************************************************)
(* The claims.                                                             *)
(***************************************************************************)
GroupBackends(g) == {b \in Backends : GroupOf(b) = g}
HealthyList(g) == SelectSeq(Targets[g], LAMBDA b : healthy[b] = 1)
RECURSIVE SumOver(_, _)
SumOver(f, S) == IF S = {} THEN 0
                 ELSE LET x == CHOOSE y \in S : TRUE IN f[x] + SumOver(f, S \ {x})
\* the picks that have returned a backend of group g
PicksOn(g) == SumOver(picks, GroupBackends(g))
\* the cleanup goroutines of picks of b that have not decremented yet
Outstanding(b) ==
    pendingDec[b] + Cardinality({r \in Reqs : req[r].cleanup = "sleeping" /\ req[r].backend = b})

\* C2: every change of a backend's healthy flag is the write of its health
\* task applying the checker's result; no step of request handling changes it.
C2_SoleWriter ==
    [][\A b \in Backends :
          healthy'[b] # healthy[b] => hc[b].pc = "apply" /\ hc'[b].pc = "wait"]_vars

C4_PassiveThroughStateMachine ==
    [][\A r \in Reqs :
          LET b == req[r].backend
          IN  (req[r].pc = "forward" /\ req'[r].pc = "done"
                 /\ healthy[b] = 1 /\ healthy'[b] = 0)
              => /\ b \in Checked
                 /\ checker'[b].consecutiveFailure = checker[b].consecutiveFailure + 1
                 /\ checker'[b].consecutiveFailure >= checker'[b].UnhealthyThreshold]_vars

\* C5: a pick returns only a backend of the request's group whose healthy flag
\* is set, and returns nil exactly when no backend of the group is healthy.
C5_HealthyOnly ==
    \A r \in Reqs :
       LET q == req[r]
       IN  /\ q.backend # NoBackend =>
                 q.backend \in GroupBackends(q.group) /\ healthy[q.backend] = 1
           /\ q.pc \in {"inc", "forward", "done"} =>
                 (q.backend = NoBackend <=> \A b \in GroupBackends(q.group) : healthy[b] = 0)

C5_Witness ==
    /\ healthy["b1"] = 0
    /\ healthy["b3"] = 0
    /\ picks["b2"] = 2
    /\ started = 4
    /\ req[1].pc = "done" /\ req[1].group = "g2" /\ req[1].backend = NoBackend

\* C6: a request whose group had no healthy backend from its arrival to its
\* answer is answered 503 "no healthy backends available" with no upstream call.
C6_NoHealthy503 ==
    \A r \in Reqs :
       LET q == req[r]
       IN  (q.pc = "done" /\ q.allDown) =>
              /\ q.status = 503
              /\ q.body = "no healthy backends available"
              /\ q.calls = 0
              /\ q.backend = NoBackend

C6_Witness ==
    \E r \in Reqs : /\ req[r].pc = "done" /\ req[r].allDown /\ req[r].group = "g1"
                    /\ ~checker["b1"].isHealthy /\ ~checker["b2"].isHealthy

\* C7: the counter is not decremented while the request is being forwarded, and
\* when the handler returns, no other pick of that backend being outstanding,
\* the counter is back to its value before the pick.
C7_InFlightTiedToRequest ==
    \A r \in Reqs :
       LET q == req[r]
           b == q.backend
       IN  /\ q.pc = "forward" => q.cleanup = "sleeping"
           /\ (q.pc = "done" /\ b # NoBackend
                 /\ pendingDec[b] = 0
                 /\ \A r2 \in Reqs \ {r} : req[r2].backend # b)
              => connections[b] = q.connBefore

\* C8: each backend's counter is >= 0, equals its picks minus its decrements,
\* and each pick that returned a backend has exactly one cleanup, sleeping or
\* done, so the decrements still to come are the counter's value.
C8_CounterAccounting ==
    /\ \A b \in Backends :
          /\ connections[b] >= 0
          /\ connections[b] = picks[b] - decs[b]
          /\ connections[b] = Outstanding(b)
    /\ \A r \in Reqs :
          (req[r].pc \in {"forward", "done"} /\ req[r].backend # NoBackend)
             => req[r].cleanup \in {"sleeping", "done"}

C8_Witness ==
    /\ picks["b1"] = 2
    /\ decs["b1"] = 1
    /\ connections["b1"] = 1
    /\ pendingDec["b1"] = 1
    /\ \E r \in Reqs : req[r].pc = "forward" /\ req[r].backend = "b1" /\ req[r].cleanup = "done"

\* C9: with picks issued one at a time, the i-th pick on a round-robin group
\* returns the backend at position (i-1) mod k of its k healthy backends, and
\* after N picks each of them has been picked floor(N/k) or ceil(N/k) times.
C9_RoundRobinOrder ==
    /\ [](algorithm = "round_robin" =>
             \A g \in Groups :
                LET k == Len(HealthyList(g))
                    n == PicksOn(g)
                IN  \A j \in 1..k :
                       picks[HealthyList(g)[j]] \in {n \div k, (n + k - 1) \div k})
    /\ [][algorithm = "round_robin" =>
             \A r \in Reqs :
                (req[r].pc = "inc" /\ req'[r].pc = "forward") =>
                   LET hl == HealthyList(req[r].group)
                   IN  req[r].backend = hl[(PicksOn(req[r].group) % Len(hl)) + 1]]_vars

C9_Witness ==
    /\ algorithm = "round_robin"
    /\ \A b \in Backends : healthy[b] = 1
    /\ picks["b1"] = 3 /\ picks["b2"] = 2
    /\ req[1].pc = "forward" /\ req[1].backend = "b1"

\* C10: concurrent picks never trip the runtime's check of unsynchronised map
\* access, no cursor increment is lost (with no pick between its read and its
\* write, a group's cursor is the number of picks made on it), and the picks
\* on permanently healthy backends are spread floor(n/k) or ceil(n/k) each.
C10_ConcurrentCursor ==
    /\ ~crashed
    /\ algorithm = "round_robin" =>
          \A g \in Groups :
             (\A r \in Reqs : req[r].group = g => req[r].pc \notin {"scan", "rr_read", "rr_write"})
             => LET n == PicksOn(g) + Cardinality({r \in Reqs : req[r].group = g /\ req[r].pc = "inc"})
                    k == Len(Targets[g])
                IN  /\ roundRobinIndex[g] = n
                    /\ (\A b \in GroupBackends(g) : healthy[b] = 1) =>
                          \A b \in GroupBackends(g) :
                             picks[b] + Cardinality({r \in Reqs : req[r].backend = b /\ req[r].pc = "inc"})
                                \in {n \div k, (n + k - 1) \div k}

\* the position of b in the list hb
IndexIn(hb, b) == CHOOSE i \in 1..Len(hb) : hb[i] = b

\* C11: a pick on group g runs the strategy configured for g, whatever the
\* strategies of the other groups and the order in which groups are declared.
C11_OwnStrategy ==
    \A r \in Reqs :
       LET q == req[r]
       IN  /\ q.pc \in {"rr_read", "rr_write"} => cfgLB[q.group] = "round_robin"
           /\ q.pc = "lc" => cfgLB[q.group] = "least_connections"
           /\ q.pc = "weighted" => cfgLB[q.group] = "weighted"

\* C12: leastConnections returns a healthy backend whose count is minimal over
\* the healthy set and, among those with the minimal count, the one with the
\* lowest index in the group's backend list.
C12_LeastConnections ==
    \A r \in Reqs :
       LET q == req[r]
           hl == HealthyList(q.group)
       IN  (algorithm = "least_connections" /\ q.pc = "inc") =>
              /\ \E i \in 1..Len(hl) : hl[i] = q.backend
              /\ \A i \in 1..Len(hl) : connections[q.backend] <= connections[hl[i]]
              /\ \A i \in 1..Len(hl) :
                    connections[hl[i]] = connections[q.backend] => IndexIn(hl, q.backend) <= i

C12_Witness ==
    /\ algorithm = "least_connections"
    /\ req[1].pc = "inc" /\ req[1].group = "g1" /\ req[1].backend = "b2"
    /\ healthy["b1"] = 1
    /\ connections["b1"] = 2 /\ connections["b2"] = 1

\* the sum of the weights of the first n backends of hb
WeightBefore(hb, n) == SumOver([i \in 1..n |-> Weight[hb[i]]], 1..n)

\* C13: for a draw d in [0, total) weighted returns the one backend i with
\* (weights before i) <= d < (weights up to and including i), so exactly
\* weight_i of the total draws select backend i.
C13_WeightedDraw ==
    \A r \in Reqs :
       LET q == req[r]
           hl == HealthyList(q.group)
           total == WeightBefore(hl, Len(hl))
           slice(d) == {i \in 1..Len(hl) : WeightBefore(hl, i - 1) <= d /\ d < WeightBefore(hl, i)}
       IN  (algorithm = "weighted" /\ q.pc = "inc") =>
              /\ total > 0
              /\ q.cur \in 0..(total - 1)
              /\ slice(q.cur) = {IndexIn(hl, q.backend)}
              /\ \A i \in 1..Len(hl) :
                    Cardinality({d \in 0..(total - 1) : WeightedIndex(hl, d) = i}) = Weight[hl[i]]
              /\ \A d \in 0..(total - 1) : slice(d) = {WeightedIndex(hl, d)}

C13_Witness ==
    /\ algorithm = "weighted"
    /\ req[1].pc = "inc" /\ req[1].group = "g1" /\ req[1].backend = "b2"
    /\ req[1].hb = <<"b1", "b2">>
    /\ req[1].cur = 2

\* C14: the weights a weighted pick divides by are per target: every
\* assignment of a weight >= 1 to each target of the group is the weights of
\* its Backends under some configuration, so two backends of one group can
\* have different weights.
C14_PerTargetWeight ==
    \A r \in Reqs :
       LET targets == GroupBackends(req[r].group)
       IN  (algorithm = "weighted" /\ req[r].pc = "weighted") =>
              \A w \in [targets -> 1..MaxWeight] :
                 \E cw \in [Groups -> 1..MaxWeight] :
                    \A t \in targets : NewBackendWeight(cw)[t] = w[t]

\* the declared rules that match the request, by position in the configuration
Matching == {i \in 1..Len(routing.Rules) : matchRule(hreq, routing.Rules[i])}
\* the matching rules of the highest priority
TopMatching ==
    {i \in Matching : \A j \in Matching :
        routing.Rules[i].Priority >= routing.Rules[j].Priority}
\* what Route has answered for the request in slot r
Routed(r) == IF req[r].status = 404 THEN RouteErr ELSE req[r].group
\* the group that a name stands for, the lookup error for an undefined name
GroupOrErr(name) == IF name \in Groups THEN name ELSE RouteErr

\* C15: when some rule matches, the answer of Route is that of a matching rule
\* whose priority is maximal among the matching rules (its group), whatever
\* the declaration order; no matching rule of lower priority decides.
C15_RouterPriority ==
    \A r \in Reqs :
       (req[r].pc # "idle" /\ Matching # {}) =>
          \E i \in TopMatching : Routed(r) = GroupOrErr(routing.Rules[i].Backend)

C15_Witness ==
    /\ Len(routing.Rules) = 2
    /\ routing.Rules[1].Priority = 0 /\ routing.Rules[1].Backend = "g1"
    /\ routing.Rules[2].Priority = 1 /\ routing.Rules[2].Backend = "g2"
    /\ Matching = {1, 2}
    /\ req[1].pc = "scan" /\ req[1].group = "g2"

\* C16: among the matching rules of the highest priority the one declared
\* first decides, so the answer is a function of configuration and request.
C16_FirstDeclaredWins ==
    \A r \in Reqs :
       (req[r].pc # "idle" /\ Matching # {}) =>
          LET first == CHOOSE i \in TopMatching : \A j \in TopMatching : i <= j
          IN  Routed(r) = GroupOrErr(routing.Rules[first].Backend)

\* C18: when no rule matches, a configured default_backend's group is the
\* answer, and with no default_backend configured the request is answered 404
\* with no pick and no upstream call.
C18_DefaultOrNotFound ==
    \A r \in Reqs :
       (req[r].pc # "idle" /\ Matching = {}) =>
          IF routing.DefaultBackend # ""
          THEN Routed(r) = GroupOrErr(routing.DefaultBackend)
          ELSE /\ req[r].pc = "done"
               /\ req[r].status = 404
               /\ req[r].backend = NoBackend
               /\ req[r].calls = 0
               /\ \A b \in Backends : connections[b] = 0 /\ picks[b] = 0

\* C19: in every configuration that Load accepts each rule's backend and the
\* default_backend name a defined group, so Route never looks up an undefined
\* group for a matching rule or for the default.
C19_BackendsResolve ==
    /\ \A i \in 1..Len(routing.Rules) : routing.Rules[i].Backend \in Groups
    /\ routing.DefaultBackend \in Groups \cup {""}
    /\ \A r \in Reqs :
          (req[r].pc # "idle" /\ Matching # {}) => Routed(r) # RouteErr

\* s upper-cased
Upper(s) == [i \in 1..Len(s) |-> ToUpper(s[i])]

\* C17: a rule matches a request iff every predicate it declares matches:
\* path pattern, path_prefix (the path starts with it), host (equal), methods
\* (membership ignoring case) and headers (each declared key has the declared
\* value); a rule that declares path and path_prefix requires both.
C17_AllDeclaredPredicates ==
    LET rule == routing.Rules[1]
        pathOK == rule.Path = <<>> \/ matchPath(hreq.Path, rule.Path)
        prefixOK == rule.PathPrefix = <<>> \/
                    \E n \in 0..Len(hreq.Path) : SubSeq(hreq.Path, 1, n) = rule.PathPrefix
        hostOK == rule.Host = "" \/ hreq.Host = rule.Host
        methodOK == rule.Methods = <<>> \/
                    \E i \in 1..Len(rule.Methods) : Upper(rule.Methods[i]) = Upper(hreq.Method)
        headersOK == \A key \in DOMAIN rule.Headers :
                        \E k \in DOMAIN hreq.Header :
                           /\ k = CanonicalMIMEHeaderKey(key)
                           /\ hreq.Header[k] = <<rule.Headers[key]>>
    IN  mres.done => (mres.ok <=> (pathOK /\ prefixOK /\ hostOK /\ methodOK /\ headersOK))

C17_Witness ==
    /\ mres.done /\ mres.ok
    /\ routing.Rules[1].Path = <<"/", "a", "/", "*">>
    /\ routing.Rules[1].PathPrefix = <<"/", "a", "/", "b">>
    /\ routing.Rules[1].Host = "a.example"
    /\ Len(routing.Rules[1].Methods) = 2
    /\ DOMAIN routing.Rules[1].Headers = {"X-Env", "X-Id"}
    /\ hreq.Method = <<"p", "u", "t">>

\* the non-empty elements of a path
Segs(s) == SelectSeq(Split(s), LAMBDA e : e # <<>>)
\* a pattern's elements against a path's: a final * stands for any rest of
\* the path (none included), any other * for exactly one element
WildcardMatch(ps, qs) ==
    IF qs # <<>> /\ qs[Len(qs)] = <<"*">>
    THEN /\ Len(ps) >= Len(qs) - 1
         /\ \A i \in 1..(Len(qs) - 1) : qs[i] = <<"*">> \/ ps[i] = qs[i]
    ELSE /\ Len(ps) = Len(qs)
         /\ \A i \in 1..Len(qs) : qs[i] = <<"*">> \/ ps[i] = qs[i]

\* C20: on canonical paths, P/* matches exactly P and the paths under P/, /*
\* matches every path, and a * in an interior segment matches exactly one
\* path segment.
C20_WildcardSemantics ==
    mres.done =>
       (mres.ok <=> WildcardMatch(Segs(Clean(hreq.Path)), Segs(Clean(routing.Rules[1].Path))))

\* the rule that Route selects for the request: the first match in the
\* router's order, 0 when the default backend answers
SelectedRule ==
    LET hit == {i \in 1..Len(router.rules) : matchRule(hreq, router.rules[i])}
    IN  IF hit = {} THEN 0 ELSE CHOOSE i \in hit : \A j \in hit : i <= j
\* the literal prefix of a rule: its path_prefix, else its path before "/*"
LiteralPrefix(rule) ==
    IF rule.PathPrefix # <<>> THEN rule.PathPrefix
    ELSE IF HasSuffix(rule.Path, <<"/", "*">>) THEN TrimSuffix(rule.Path, <<"/", "*">>)
    ELSE <<>>
\* a path with a leading prefix removed, / when nothing is left
Without(p, prefix) ==
    IF Len(p) = Len(prefix) THEN <<"/">> ELSE SubSeq(p, Len(prefix) + 1, Len(p))

\* C21: the path of a routed request is rewritten only when the rule that
\* Route selected has strip_prefix, and then by removing that rule's own
\* literal prefix; a request routed by a rule without strip_prefix or by the
\* default backend keeps its path.
C21_StripFollowsRoutedRule ==
    \A r \in Reqs :
       (req[r].pc \notin {"idle"} /\ req[r].status # 404) =>
          LET sel == SelectedRule
          IN  IF sel # 0 /\ router.rules[sel].StripPrefix
              THEN req[r].Path \in
                      {hreq.Path,
                       Without(hreq.Path, LiteralPrefix(router.rules[sel]))}
              ELSE req[r].Path = hreq.Path

\* C22: a request routed by a rule with strip_prefix and literal prefix P is
\* sent upstream with P removed from the front of its path (/ when nothing
\* is left) and with its query string as received.
C22_StripIdentity ==
    \A r \in Reqs :
       LET sel == SelectedRule
       IN  (/\ req[r].calls > 0
            /\ sel # 0
            /\ router.rules[sel].StripPrefix
            /\ LiteralPrefix(router.rules[sel]) # <<>>)
           => /\ HasPrefix(hreq.Path, LiteralPrefix(router.rules[sel]))
              /\ Upstream(r).Path = Without(hreq.Path, LiteralPrefix(router.rules[sel]))
              /\ Upstream(r).RawQuery = hreq.RawQuery

\* the address the request was received from: the host of RemoteAddr
PeerIP == SplitHostPort(hreq.RemoteAddr)
\* the inbound X-Forwarded-For chain, empty when the header is absent
InboundChain ==
    IF "X-Forwarded-For" \in DOMAIN hreq.Header
    THEN hreq.Header["X-Forwarded-For"][1] ELSE <<>>

\* C23: the X-Forwarded-For sent upstream is the inbound chain followed by
\* exactly one new element, the address the request was received from; with
\* no inbound chain it is that address alone.
C23_ForwardedForChain ==
    \A r \in Reqs :
       req[r].calls > 0 =>
          Upstream(r).Header["X-Forwarded-For"] =
             <<IF InboundChain = <<>> THEN PeerIP
               ELSE InboundChain \o <<",", " ">> \o PeerIP>>

\* C24: the X-Real-IP sent upstream is the address the request was received
\* from, whatever X-Forwarded-For and X-Real-IP the client sent.
C24_RealIPIsPeer ==
    \A r \in Reqs :
       req[r].calls > 0 => Upstream(r).Header["X-Real-Ip"] = <<PeerIP>>

\* the healthy backends, of all groups
HealthyBackends == {b \in Backends : healthy[b] = 1}

\* C25: a request for /health is answered without routing, pick or upstream
\* request; the code is 200 iff some backend is healthy and 503 otherwise, the
\* status is healthy, degraded or unhealthy as all, some or none are healthy,
\* and the two counts are the numbers of healthy and of configured backends.
C25_HealthEndpoint ==
    \A r \in Reqs :
       (hreq.Path = HealthPath /\ req[r].pc = "done") =>
          LET h == Cardinality(HealthyBackends)
              n == Cardinality(Backends)
          IN  /\ req[r].group = "" /\ req[r].backend = NoBackend /\ req[r].calls = 0
              /\ req[r].status = IF h > 0 THEN 200 ELSE 503
              /\ req[r].json.status = IF h = n THEN "healthy"
                                      ELSE IF h > 0 THEN "degraded" ELSE "unhealthy"
              /\ req[r].json.healthy_backends = h
              /\ req[r].json.total_backends = n

\* C26: a transport failure on a forwarded request is answered 502 after one
\* upstream attempt, adds exactly 1 to the backend's error count, and is
\* recorded against the backend (counted as a failure by its checker, or the
\* backend marked unhealthy).
C26_TransportFailure ==
    [][\A r \in Reqs :
          LET b == req[r].backend
              n == Name(b)
          IN  (req[r].pc = "forward" /\ req'[r].pc = "done" /\ req'[r].err # "")
              => /\ req'[r].status = 502
                 /\ req'[r].calls = 1
                 /\ metrics'.BackendRequests[n].error =
                       metrics.BackendRequests[n].error + 1
                 /\ \/ healthy'[b] = 0
                    \/ /\ b \in Checked
                       /\ checker'[b].consecutiveFailure =
                             checker[b].consecutiveFailure + 1]_vars

C28_TimeoutIs504 ==
    \A r \in Reqs :
       (req[r].pc = "done" /\ req[r].err # "") =>
          req[r].status = IF req[r].err = "timeout" THEN 504 ELSE 502
\* in the order of the shutdown steps taken so far, step a comes before step b
Precedes(a, b) ==
    \A j \in 1..Len(srv.log) :
       srv.log[j] = b => \E i \in 1..(j - 1) : srv.log[i] = a

ListenerSteps == {"close_quic", "close_fallback"}

\* C29: in every shutdown the listeners stop accepting before the drain of
\* the requests in flight ends, the health-check tasks are cancelled only
\* after the listeners have stopped and the drain has ended, and the metrics
\* endpoint is closed last.
C29_ShutdownOrder ==
    /\ \A l \in ListenerSteps : Precedes(l, "drain_end")
    /\ \A a \in ListenerSteps \cup {"drain_end"} : Precedes(a, "stop_health")
    /\ \A a \in ListenerSteps \cup {"drain_end", "stop_health"} :
          Precedes(a, "close_metrics")

\* C30: once the shutdown drains, no listener accepts a new request; no
\* request in flight is cut off before the drain deadline; and the process
\* exits with code 0.
C30_GracefulShutdown ==
    /\ srv.late = 0
    /\ srv.cutEarly = 0
    /\ srv.pc = "exited" => srv.exit = 0
\* C31: a health-check task returns only once StopHealthChecks has been
\* called, and once it has been called the task starts no probe: no checker
\* counts a probe at a tick after the stop.
C31_TaskStopsWithinInterval ==
    [][/\ \A b \in Checked :
             (hc[b].pc # "returned" /\ hc'[b].pc = "returned") =>
                srv.stopHealthCheck = "closed"
       /\ srv.stopHealthCheck = "closed" => checker' = checker]_vars
\* C32: every write of a backend's healthy flag comes with the write of the
\* same value to the backend's backend_health_status gauge.
C32_GaugeMirrorsFlag ==
    [][\A b \in Backends :
          healthy'[b] # healthy[b] =>
             metrics'.BackendHealthStatus[Name(b)] = healthy'[b]]_vars
\* C33: the process exits 0 after a clean shutdown, 1 when loading the
\* configuration fails, 2 when binding the listener fails, 3 when loading the
\* certificate fails, and never 0 when it stops on a failure.
C33_ExitCodes ==
    srv.pc = "exited" =>
       /\ srv.failure = "none" => srv.exit = 0
       /\ srv.failure = "config" => srv.exit = 1
       /\ srv.failure = "bind" => srv.exit = 2
       /\ srv.failure = "tls" => srv.exit = 3
       /\ srv.failure \in {"telemetry", "serve"} => srv.exit # 0
\* C34: under any interleaving of handler error reports and health ticks, a
\* backend's flag changes from unhealthy to healthy only at a tick whose probe
\* succeeded and with which the checker has counted healthy_threshold
\* consecutive successes; a failed probe leaves an unhealthy flag unhealthy.
C34_UnhealthyStaysOnFailure ==
    [][\A b \in Checked :
          (healthy[b] = 0 /\ healthy'[b] = 1) =>
             /\ checker[b].consecutiveFailure = 0
             /\ checker[b].consecutiveSuccess >= checker[b].HealthyThreshold]_vars
C36_IndexInRange ==
    \A r \in Reqs :
       req[r].pc = "rr_write" =>
          RRIndex(req[r].cur, Len(req[r].hb)) \in 0..(Len(req[r].hb) - 1)
\* C37: under any interleaving, a health task started before UpdateBackends
\* does not stay on the channel the update created, and after the update a
\* backend's flag is written only by the update and by the one task the update
\* created for it, never by a task that holds a checker of the previous
\* configuration.
C37_UpdateReplacesTasks ==
    [][/\ \A b \in Backends :
             \A i \in 1..Len(old[b]) : old[b][i].pc # "select"
       /\ \A b \in Backends :
             healthy'[b] # healthy[b] =>
                \/ hc[b].pc = "apply" /\ hc'[b].pc = "wait"
                \/ Len(old'[b]) # Len(old[b])]_vars
\* the replies of the handler itself: no route, no healthy backend, /health
Refused(q) ==
    /\ q.pc = "done"
    /\ \/ q.body \in {"routing error", "no healthy backends available"}
       \/ hreq.Path = HealthPath

\* C38: a request that ends in 404 for want of a route or in 503 for want of
\* a healthy backend, and a request to /health, never gets a backend, and no
\* step of a request that has no backend changes a connection counter, a
\* healthy flag or a round-robin cursor.
C38_RefusalsLeaveBalancer ==
    [][/\ \A r \in Reqs : Refused(req'[r]) => req'[r].backend = NoBackend
       /\ (\A r \in Reqs : req'[r].backend = NoBackend) =>
             /\ connections' = connections
             /\ healthy' = healthy
             /\ roundRobinIndex' = roundRobinIndex]_vars

\* 503 from g1 with both backends down, on a balancer that had served before
C38_Witness ==
    /\ \E r \in Reqs : /\ req[r].pc = "done"
                       /\ req[r].status = 503
                       /\ req[r].group = "g1"
                       /\ req[r].body = "no healthy backends available"
    /\ connections["b1"] = 1
    /\ roundRobinIndex["g1"] = 1
====
